---- MODULE Spec2Model ----
(***************************************************************************)
(* The rules engine of Tiki Solitaire (src/src/gameLogic.js, lines 1-599): *)
(* a pure state machine over one immutable game-state value.  Every        *)
(* transition function of the engine is an operator state -> state, and    *)
(* every action of the model is one call of one transition function.       *)
(*                                                                         *)
(* Representation.  A card is an immutable object; the game state holds a  *)
(* card by its id (`${rank}${suit}`) and card(id) is the object that       *)
(* createDeck built.  Array indices are 0-based as in the source           *)
(* (At, Has).  A pair label `${rank}-${rank}` is the tuple of its two      *)
(* ranks.  The optional argument chainIndex is null (no chain named) or    *)
(* <<k>> (chain k named).                                                  *)
(***************************************************************************)
EXTENDS Integers, Sequences, FiniteSets, TLC

VARIABLES
  state,   \* the GameState value: tableau, pairs, dominos, chains, moveCount, history
  clock,   \* source of domino ids (Date.now() / Math.random()): ids issued so far
  last,    \* the last call that returned a state different from its input
  pc,      \* number of steps of WinningLine played so far
  free     \* number of calls made that were not the next step of WinningLine

vars == <<state, clock, last, pc, free>>

(***************************************************************************)
(* Constants and cards                                                     *)
(***************************************************************************)
SUITS == <<"H", "D", "C", "S">>

RANKS == <<"A", "2", "3", "4", "5", "6", "7", "8", "9", "10", "J", "Q", "K">>

RANK_VALUES ==
  [r \in {"A", "2", "3", "4", "5", "6", "7", "8", "9", "10", "J", "Q", "K"} |->
     CASE r = "A" -> 1 [] r = "2" -> 2 [] r = "3" -> 3 [] r = "4" -> 4
       [] r = "5" -> 5 [] r = "6" -> 6 [] r = "7" -> 7 [] r = "8" -> 8
       [] r = "9" -> 9 [] r = "10" -> 10 [] r = "J" -> 11 [] r = "Q" -> 12
       [] r = "K" -> 13]

MAX_PAIRS == 6

MAX_HISTORY == 50

COLUMN_COUNT == 8

null == <<>>

\* the value of a missing card (an empty column has no top card)
undefined == "undefined"

\* 0-based array access: Has(a, i) iff a[i] is not undefined
Has(a, i) == i \in 0..(Len(a) - 1)

At(a, i) == a[i + 1]

\* slice(0, -1) taken for a plain copy
DropLast_KeepsAll(a) == a

\* Array.prototype.slice(0, -1)
DropLast(a) == SubSeq(a, 1, Len(a) - 1)

\* Array.prototype.splice(i, 1) on a copy
RemoveAt(a, i) == SubSeq(a, 1, i) \o SubSeq(a, i + 2, Len(a))

\* Array.prototype.splice(i, 0, x) on a copy
InsertAt(a, i, x) == SubSeq(a, 1, i) \o <<x>> \o SubSeq(a, i + 1, Len(a))

\* RemoveBoth without the descending sort: the lower index is removed first
RemoveBoth_LowerFirst(a, index1, index2) ==
  LET hi == IF index1 > index2 THEN index1 ELSE index2
      lo == IF index1 > index2 THEN index2 ELSE index1
  IN  RemoveAt(RemoveAt(a, lo), hi)

\* [index1, index2].sort((a, b) => b - a), then splice(indices[0], 1) and
\* splice(indices[1], 1): the higher index is removed first
RemoveBoth(a, index1, index2) ==
  LET hi == IF index1 > index2 THEN index1 ELSE index2
      lo == IF index1 > index2 THEN index2 ELSE index1
  IN  RemoveAt(RemoveAt(a, hi), lo)

createDeck ==
  [k \in 1..52 |->
     LET suit == SUITS[((k - 1) \div 13) + 1]
         rank == RANKS[((k - 1) % 13) + 1]
     IN  [rank |-> rank, suit |-> suit, value |-> RANK_VALUES[rank],
          isRed |-> (suit = "H" \/ suit = "D"), id |-> rank \o suit]]

CardIds == {createDeck[k].id : k \in 1..52}

\* the card object with a given id
card == [id \in CardIds |-> CHOOSE c \in {createDeck[k] : k \in 1..52} : c.id = id]

\* the value of Math.floor(rng() * (i + 1)) when rng() returns numerator / RngDenominator
RngDenominator == 4

PickIndex(numerator, i) == (numerator * (i + 1)) \div RngDenominator

\* [copy[i], copy[j]] = [copy[j], copy[i]]
Swap(copy, i, j) == [copy EXCEPT ![i + 1] = copy[j + 1], ![j + 1] = copy[i + 1]]

\* shuffleDeck with `const copy = deck` in place of `const copy = [...deck]`
shuffleDeck_InPlace(deck, rng) ==
  LET RECURSIVE loop(_, _)
      loop(copy, i) ==
        IF i <= 0 THEN copy
        ELSE loop(Swap(copy, i, PickIndex(rng[Len(deck) - i], i)), i - 1)
      shuffled == loop(deck, Len(deck) - 1)
  IN  [deck |-> shuffled, copy |-> shuffled]

\* rng is the sequence of the numerators of the values rng() returns, in call
\* order; the result holds both arrays after the call: the argument and the
\* array returned
shuffleDeck(deck, rng) ==
  LET RECURSIVE loop(_, _)
      loop(copy, i) ==
        IF i <= 0 THEN copy
        ELSE loop(Swap(copy, i, PickIndex(rng[Len(deck) - i], i)), i - 1)
  IN  [deck |-> deck, copy |-> loop(deck, Len(deck) - 1)]

\* dealTableau with unshift in place of push
dealTableau_Unshift(deck, columnCount) ==
  LET RECURSIVE dealt(_)
      dealt(n) ==
        IF n = 0 THEN [c \in 1..columnCount |-> <<>>]
        ELSE LET tableau == dealt(n - 1)
                 index == n - 1
             IN  [tableau EXCEPT ![(index % columnCount) + 1] = <<deck[n]>> \o @]
  IN  dealt(Len(deck))

\* deck.forEach((card, index) => tableau[index % columnCount].push(card))
dealTableau(deck, columnCount) ==
  LET RECURSIVE dealt(_)
      dealt(n) ==
        IF n = 0 THEN [c \in 1..columnCount |-> <<>>]
        ELSE LET tableau == dealt(n - 1)
                 index == n - 1
             IN  [tableau EXCEPT ![(index % columnCount) + 1] = Append(@, deck[n])]
  IN  dealt(Len(deck))

createInitialState(deck) ==
  [tableau |-> dealTableau(deck, COLUMN_COUNT), pairs |-> <<>>, dominos |-> <<>>,
   chains |-> <<>>, moveCount |-> 0, history |-> <<>>]

\* Top that reads column[0]
Top_Bottom(column) == IF Len(column) = 0 THEN undefined ELSE column[1]

\* column[column.length - 1]: the top card, undefined for an empty column
Top(column) == IF Len(column) = 0 THEN undefined ELSE column[Len(column)]

\* canStack without the "values sum to 14" alternative
canStack_RankOnly(topCard, bottomCard) ==
  IF topCard = undefined \/ bottomCard = undefined THEN FALSE
  ELSE card[topCard].rank = card[bottomCard].rank

canStack(topCard, bottomCard) ==
  IF topCard = undefined \/ bottomCard = undefined THEN FALSE
  ELSE \/ card[topCard].rank = card[bottomCard].rank
       \/ card[topCard].value + card[bottomCard].value = 14

\* canPair without the colour test
canPair_AnyColour(card1, card2) ==
  IF card1 = undefined \/ card2 = undefined THEN FALSE
  ELSE card[card1].value + card[card2].value = 14

canPair(card1, card2) ==
  IF card1 = undefined \/ card2 = undefined THEN FALSE
  ELSE /\ card[card1].isRed # card[card2].isRed
       /\ card[card1].value + card[card2].value = 14

getPairLowerValue(pair) ==
  IF card[pair[1]].value <= card[pair[2]].value
  THEN card[pair[1]].value ELSE card[pair[2]].value

\* [cardA, cardB].sort by value (stable), then `${rank}-${rank}`
getPairLabel(pair) ==
  IF card[pair[1]].value <= card[pair[2]].value
  THEN <<card[pair[1]].rank, card[pair[2]].rank>>
  ELSE <<card[pair[2]].rank, card[pair[1]].rank>>

\* canFormDomino that also asks for two pairs of the same label
canFormDomino_SameLabel(pair1, pair2) ==
  /\ getPairLabel(pair1) = getPairLabel(pair2)
  /\ Cardinality({card[pair1[1]].suit, card[pair1[2]].suit,
                  card[pair2[1]].suit, card[pair2[2]].suit}) = 4

canFormDomino(pair1, pair2) ==
  Cardinality({card[pair1[1]].suit, card[pair1[2]].suit,
               card[pair2[1]].suit, card[pair2[2]].suit}) = 4

(***************************************************************************)
(* History                                                                 *)
(***************************************************************************)
\* snapshotState that stores no chains
snapshotState_NoChains(s) ==
  [tableau |-> s.tableau, pairs |-> s.pairs, dominos |-> s.dominos,
   chains |-> <<>>, moveCount |-> s.moveCount]

snapshotState(s) ==
  [tableau |-> s.tableau, pairs |-> s.pairs, dominos |-> s.dominos,
   chains |-> s.chains, moveCount |-> s.moveCount]

\* withHistory with history.pop() in place of history.shift()
withHistory_DropNewest(s) ==
  LET history == Append(s.history, snapshotState(s))
  IN  IF Len(history) > MAX_HISTORY THEN DropLast(history) ELSE history

withHistory(s) ==
  LET history == Append(s.history, snapshotState(s))
  IN  IF Len(history) > MAX_HISTORY THEN Tail(history) ELSE history

\* undoState that keeps the current moveCount
undoState_KeepMoveCount(s) ==
  IF Len(s.history) = 0 THEN s
  ELSE LET previous == s.history[Len(s.history)]
       IN  [tableau |-> previous.tableau, pairs |-> previous.pairs,
            dominos |-> previous.dominos, chains |-> previous.chains,
            moveCount |-> s.moveCount, history |-> DropLast(s.history)]

undoState(s) ==
  IF Len(s.history) = 0 THEN s
  ELSE LET previous == s.history[Len(s.history)]
       IN  [tableau |-> previous.tableau, pairs |-> previous.pairs,
            dominos |-> previous.dominos, chains |-> previous.chains,
            moveCount |-> previous.moveCount, history |-> DropLast(s.history)]

(***************************************************************************)
(* Tableau moves and pairs                                                 *)
(***************************************************************************)
\* moveCard that leaves the moved card on the source column
moveCard_NoPop(s, fromCol, toCol) ==
  IF fromCol = toCol THEN s
  ELSE IF ~Has(s.tableau, fromCol) \/ ~Has(s.tableau, toCol) THEN s
  ELSE LET fromColumn == At(s.tableau, fromCol)
           toColumn == At(s.tableau, toCol)
       IN  IF Len(fromColumn) = 0 THEN s
           ELSE LET topCard == Top(fromColumn)
                    targetCard == Top(toColumn)
                IN  IF Len(toColumn) # 0 /\ ~canStack(topCard, targetCard)
                    THEN s
                    ELSE [s EXCEPT
                            !.tableau = [index \in 1..Len(s.tableau) |->
                               IF index - 1 = toCol THEN Append(s.tableau[index], topCard)
                               ELSE s.tableau[index]],
                            !.moveCount = s.moveCount + 1,
                            !.history = withHistory(s)]

moveCard(s, fromCol, toCol) ==
  IF fromCol = toCol THEN s
  ELSE IF ~Has(s.tableau, fromCol) \/ ~Has(s.tableau, toCol) THEN s
  ELSE LET fromColumn == At(s.tableau, fromCol)
           toColumn == At(s.tableau, toCol)
       IN  IF Len(fromColumn) = 0 THEN s
           ELSE LET topCard == Top(fromColumn)
                    targetCard == Top(toColumn)
                IN  IF Len(toColumn) # 0 /\ ~canStack(topCard, targetCard)
                    THEN s
                    ELSE [s EXCEPT
                            !.tableau = [index \in 1..Len(s.tableau) |->
                               IF index - 1 = fromCol THEN DropLast(s.tableau[index])
                               ELSE IF index - 1 = toCol THEN Append(s.tableau[index], topCard)
                               ELSE s.tableau[index]],
                            !.moveCount = s.moveCount + 1,
                            !.history = withHistory(s)]

\* PoolFull with > in place of >=
PoolFull_OffByOne(pairs) == Len(pairs) > MAX_PAIRS

\* state.pairs.length >= MAX_PAIRS
PoolFull(pairs) == Len(pairs) >= MAX_PAIRS

\* createPairFromTableau that stores the cards in argument order
createPairFromTableau_ArgumentOrder(s, fromCol, toCol) ==
  IF PoolFull(s.pairs) THEN s
  ELSE IF fromCol = toCol THEN s
  ELSE IF ~Has(s.tableau, fromCol) \/ ~Has(s.tableau, toCol) THEN s
  ELSE LET fromColumn == At(s.tableau, fromCol)
           toColumn == At(s.tableau, toCol)
       IN  IF Len(fromColumn) = 0 \/ Len(toColumn) = 0 THEN s
           ELSE LET card1 == Top(fromColumn)
                    card2 == Top(toColumn)
                    pair == <<card1, card2>>
                IN  IF ~canPair(card1, card2) THEN s
                    ELSE [s EXCEPT
                            !.tableau = [index \in 1..Len(s.tableau) |->
                               IF index - 1 = fromCol \/ index - 1 = toCol
                               THEN DropLast(s.tableau[index])
                               ELSE s.tableau[index]],
                            !.pairs = Append(s.pairs, pair),
                            !.moveCount = s.moveCount + 1,
                            !.history = withHistory(s)]

createPairFromTableau(s, fromCol, toCol) ==
  IF PoolFull(s.pairs) THEN s
  ELSE IF fromCol = toCol THEN s
  ELSE IF ~Has(s.tableau, fromCol) \/ ~Has(s.tableau, toCol) THEN s
  ELSE LET fromColumn == At(s.tableau, fromCol)
           toColumn == At(s.tableau, toCol)
       IN  IF Len(fromColumn) = 0 \/ Len(toColumn) = 0 THEN s
           ELSE LET card1 == Top(fromColumn)
                    card2 == Top(toColumn)
                    pair == IF card[card1].isRed THEN <<card1, card2>> ELSE <<card2, card1>>
                IN  IF ~canPair(card1, card2) THEN s
                    ELSE [s EXCEPT
                            !.tableau = [index \in 1..Len(s.tableau) |->
                               IF index - 1 = fromCol \/ index - 1 = toCol
                               THEN DropLast(s.tableau[index])
                               ELSE s.tableau[index]],
                            !.pairs = Append(s.pairs, pair),
                            !.moveCount = s.moveCount + 1,
                            !.history = withHistory(s)]

(***************************************************************************)
(* Dominos                                                                 *)
(***************************************************************************)
\* getNumericValue: RANK_VALUES[label.split('-')[0]] (every rank is a key of
\* RANK_VALUES with a non-zero value, so the parseInt fallback is never taken)
getNumericValue(label) == RANK_VALUES[label[1]]

\* normalizeDominoValues that keeps the labels in argument order
normalizeDominoValues_AsGiven(value1, value2) ==
  [value1 |-> value1, value2 |-> value2]

normalizeDominoValues(value1, value2) ==
  IF getNumericValue(value1) <= getNumericValue(value2)
  THEN [value1 |-> value1, value2 |-> value2]
  ELSE [value1 |-> value2, value2 |-> value1]

\* createDominoFromPairs that puts the new domino in front of state.dominos
createDominoFromPairs_Prepends(s, pairIndex1, pairIndex2, id) ==
  IF pairIndex1 = pairIndex2 THEN s
  ELSE IF ~Has(s.pairs, pairIndex1) \/ ~Has(s.pairs, pairIndex2) THEN s
  ELSE LET pair1 == At(s.pairs, pairIndex1)
           pair2 == At(s.pairs, pairIndex2)
           label1 == getPairLabel(pair1)
           label2 == getPairLabel(pair2)
           norm == normalizeDominoValues(label1, label2)
           orderedPair1 == IF label1 = norm.value1 THEN pair1 ELSE pair2
           orderedPair2 == IF label1 = norm.value1 THEN pair2 ELSE pair1
           domino == [id |-> id, pair1 |-> orderedPair1, pair2 |-> orderedPair2,
                      value1 |-> norm.value1, value2 |-> norm.value2,
                      cards |-> orderedPair1 \o orderedPair2, inChain |-> FALSE]
       IN  IF ~canFormDomino(pair1, pair2) THEN s
           ELSE [s EXCEPT
                   !.pairs = RemoveBoth(s.pairs, pairIndex1, pairIndex2),
                   !.dominos = <<domino>> \o s.dominos,
                   !.moveCount = s.moveCount + 1,
                   !.history = withHistory(s)]

\* id is the value of `domino_${Date.now()}_${Math.random()...}` drawn by this call
createDominoFromPairs(s, pairIndex1, pairIndex2, id) ==
  IF pairIndex1 = pairIndex2 THEN s
  ELSE IF ~Has(s.pairs, pairIndex1) \/ ~Has(s.pairs, pairIndex2) THEN s
  ELSE LET pair1 == At(s.pairs, pairIndex1)
           pair2 == At(s.pairs, pairIndex2)
           label1 == getPairLabel(pair1)
           label2 == getPairLabel(pair2)
           norm == normalizeDominoValues(label1, label2)
           orderedPair1 == IF label1 = norm.value1 THEN pair1 ELSE pair2
           orderedPair2 == IF label1 = norm.value1 THEN pair2 ELSE pair1
           domino == [id |-> id, pair1 |-> orderedPair1, pair2 |-> orderedPair2,
                      value1 |-> norm.value1, value2 |-> norm.value2,
                      cards |-> orderedPair1 \o orderedPair2, inChain |-> FALSE]
       IN  IF ~canFormDomino(pair1, pair2) THEN s
           ELSE [s EXCEPT
                   !.pairs = RemoveBoth(s.pairs, pairIndex1, pairIndex2),
                   !.dominos = Append(s.dominos, domino),
                   !.moveCount = s.moveCount + 1,
                   !.history = withHistory(s)]

(***************************************************************************)
(* Chains                                                                  *)
(***************************************************************************)
canConnectDominos(dominoA, dominoB) ==
  \/ dominoA.value1 = dominoB.value1
  \/ dominoA.value1 = dominoB.value2
  \/ dominoA.value2 = dominoB.value1
  \/ dominoA.value2 = dominoB.value2

\* first.displayValue1 || first.value1, last.displayValue2 || last.value2
\* (called on non-empty chains only; the callers test the length first)
getChainEndValues(chain) ==
  LET first == chain[1]
      lastD == chain[Len(chain)]
  IN  [start |-> IF "displayValue1" \in DOMAIN first THEN first.displayValue1
                 ELSE first.value1,
       end   |-> IF "displayValue2" \in DOMAIN lastD THEN lastD.displayValue2
                 ELSE lastD.value2]

canConnectToChain(domino, chain) ==
  IF Len(chain) = 0 THEN TRUE
  ELSE LET ends == getChainEndValues(chain)
       IN  domino.value1 = ends.end \/ domino.value2 = ends.end

canConnectToChainStart(domino, chain) ==
  IF Len(chain) = 0 THEN TRUE
  ELSE LET ends == getChainEndValues(chain)
       IN  domino.value1 = ends.start \/ domino.value2 = ends.start

\* { ...domino, originalIndex, displayValue1, displayValue2 }
Oriented(domino, dominoIndex, displayValue1, displayValue2) ==
  [id |-> domino.id, pair1 |-> domino.pair1, pair2 |-> domino.pair2,
   value1 |-> domino.value1, value2 |-> domino.value2, cards |-> domino.cards,
   inChain |-> domino.inChain, originalIndex |-> dominoIndex,
   displayValue1 |-> displayValue1, displayValue2 |-> displayValue2]

\* MarkInChain that takes the domino out of the list
MarkInChain_TakesOut(dominos, dominoIndex) == RemoveAt(dominos, dominoIndex)

\* state.dominos.map((item, index) => index === dominoIndex ? {...item, inChain: true} : item)
MarkInChain(dominos, dominoIndex) ==
  [index \in 1..Len(dominos) |->
     IF index - 1 = dominoIndex THEN [dominos[index] EXCEPT !.inChain = TRUE]
     ELSE dominos[index]]

\* StartNewChain that puts the new chain in front of the chain list
StartNewChain_InFront(s, dominoIndex) ==
  LET domino == At(s.dominos, dominoIndex)
      oriented == Oriented(domino, dominoIndex, domino.value1, domino.value2)
  IN  [s EXCEPT
         !.dominos = MarkInChain(s.dominos, dominoIndex),
         !.chains = <<(<<oriented>>)>> \o s.chains,
         !.moveCount = s.moveCount + 1,
         !.history = withHistory(s)]

\* the "start a new chain" branch of addDominoToChain
StartNewChain(s, dominoIndex) ==
  LET domino == At(s.dominos, dominoIndex)
      oriented == Oriented(domino, dominoIndex, domino.value1, domino.value2)
  IN  [s EXCEPT
         !.dominos = MarkInChain(s.dominos, dominoIndex),
         !.chains = Append(s.chains, <<oriented>>),
         !.moveCount = s.moveCount + 1,
         !.history = withHistory(s)]

\* the loop `for (i...) if (canConnectToChain(domino, chains[i])) { chainIndex = i; break; }`
\* the set holds the chosen index, or is empty when no chain accepts the domino
FirstConnectable(domino, chains) ==
  LET ok == {i \in 0..(Len(chains) - 1) : canConnectToChain(domino, At(chains, i))}
  IN  {i \in ok : \A j \in ok : i <= j}

\* ConnectToChain that never turns the domino round
ConnectToChain_NoFlip(s, dominoIndex, chainIndex) ==
  IF ~Has(s.chains, chainIndex) THEN s
  ELSE LET domino == At(s.dominos, dominoIndex)
           chain == At(s.chains, chainIndex)
           ends == getChainEndValues(chain)
           canConnectEnd == domino.value1 = ends.end \/ domino.value2 = ends.end
           canConnectStart == domino.value1 = ends.start \/ domino.value2 = ends.start
           atEnd == Oriented(domino, dominoIndex, domino.value1, domino.value2)
           atStart == Oriented(domino, dominoIndex, domino.value1, domino.value2)
           nextChain == IF canConnectEnd THEN Append(chain, atEnd)
                        ELSE <<atStart>> \o chain
       IN  IF ~canConnectEnd /\ ~canConnectStart THEN StartNewChain(s, dominoIndex)
           ELSE [s EXCEPT
                   !.dominos = MarkInChain(s.dominos, dominoIndex),
                   !.chains = [s.chains EXCEPT ![chainIndex + 1] = nextChain],
                   !.moveCount = s.moveCount + 1,
                   !.history = withHistory(s)]

\* the part of addDominoToChain after chainIndex is a number; as in the source,
\* the end values of an empty stored chain cannot be read (no reachable state
\* stores one)
ConnectToChain(s, dominoIndex, chainIndex) ==
  IF ~Has(s.chains, chainIndex) THEN s
  ELSE LET domino == At(s.dominos, dominoIndex)
           chain == At(s.chains, chainIndex)
           ends == getChainEndValues(chain)
           canConnectEnd == domino.value1 = ends.end \/ domino.value2 = ends.end
           canConnectStart == domino.value1 = ends.start \/ domino.value2 = ends.start
           atEnd == IF domino.value1 = ends.end
                    THEN Oriented(domino, dominoIndex, domino.value1, domino.value2)
                    ELSE Oriented(domino, dominoIndex, domino.value2, domino.value1)
           atStart == IF domino.value2 = ends.start
                      THEN Oriented(domino, dominoIndex, domino.value1, domino.value2)
                      ELSE Oriented(domino, dominoIndex, domino.value2, domino.value1)
           nextChain == IF canConnectEnd THEN Append(chain, atEnd)
                        ELSE <<atStart>> \o chain
       IN  IF ~canConnectEnd /\ ~canConnectStart THEN StartNewChain(s, dominoIndex)
           ELSE [s EXCEPT
                   !.dominos = MarkInChain(s.dominos, dominoIndex),
                   !.chains = [s.chains EXCEPT ![chainIndex + 1] = nextChain],
                   !.moveCount = s.moveCount + 1,
                   !.history = withHistory(s)]

\* addDominoToChain that returns its input when the scan finds no chain
addDominoToChain_RejectUnmatched(s, dominoIndex, chainIndex) ==
  IF ~Has(s.dominos, dominoIndex) THEN s
  ELSE IF At(s.dominos, dominoIndex).inChain THEN s
  ELSE IF chainIndex = null /\ Len(s.chains) = 0 THEN StartNewChain(s, dominoIndex)
  ELSE IF chainIndex = null
       THEN LET found == FirstConnectable(At(s.dominos, dominoIndex), s.chains)
            IN  IF found = {} THEN s
                ELSE ConnectToChain(s, dominoIndex, CHOOSE i \in found : TRUE)
  ELSE ConnectToChain(s, dominoIndex, chainIndex[1])

addDominoToChain(s, dominoIndex, chainIndex) ==
  IF ~Has(s.dominos, dominoIndex) THEN s
  ELSE IF At(s.dominos, dominoIndex).inChain THEN s
  ELSE IF chainIndex = null /\ Len(s.chains) = 0 THEN StartNewChain(s, dominoIndex)
  ELSE IF chainIndex = null
       THEN LET found == FirstConnectable(At(s.dominos, dominoIndex), s.chains)
            IN  IF found = {} THEN StartNewChain(s, dominoIndex)
                ELSE ConnectToChain(s, dominoIndex, CHOOSE i \in found : TRUE)
  ELSE ConnectToChain(s, dominoIndex, chainIndex[1])

\* ClearInChain that leaves every flag as it is
ClearInChain_None(dominos, ids) == dominos

\* state.dominos.map((domino) => ids.has(domino.id) ? {...domino, inChain: false} : domino)
ClearInChain(dominos, ids) ==
  [index \in 1..Len(dominos) |->
     IF dominos[index].id \in ids THEN [dominos[index] EXCEPT !.inChain = FALSE]
     ELSE dominos[index]]

\* removeLastFromChain that also takes the move back from moveCount
removeLastFromChain_TakesBackMove(s, chainIndex) ==
  IF Len(s.chains) = 0 THEN s
  ELSE IF ~Has(s.chains, chainIndex) THEN s
  ELSE IF Len(At(s.chains, chainIndex)) = 0 THEN s
  ELSE LET chain == At(s.chains, chainIndex)
           removed == chain[Len(chain)]
           popped == DropLast(chain)
           chains == IF Len(popped) = 0 THEN RemoveAt(s.chains, chainIndex)
                     ELSE [s.chains EXCEPT ![chainIndex + 1] = popped]
       IN  [s EXCEPT
              !.dominos = ClearInChain(s.dominos, {removed.id}),
              !.chains = chains,
              !.moveCount = s.moveCount - 1,
              !.history = withHistory(s)]

removeLastFromChain(s, chainIndex) ==
  IF Len(s.chains) = 0 THEN s
  ELSE IF ~Has(s.chains, chainIndex) THEN s
  ELSE IF Len(At(s.chains, chainIndex)) = 0 THEN s
  ELSE LET chain == At(s.chains, chainIndex)
           removed == chain[Len(chain)]
           popped == DropLast(chain)
           chains == IF Len(popped) = 0 THEN RemoveAt(s.chains, chainIndex)
                     ELSE [s.chains EXCEPT ![chainIndex + 1] = popped]
       IN  [s EXCEPT
              !.dominos = ClearInChain(s.dominos, {removed.id}),
              !.chains = chains,
              !.history = withHistory(s)]

\* flat() that returns the first chain only
Flat_FirstChain(chains) == chains[1]

\* state.chains.flat()
Flat(chains) ==
  LET RECURSIVE flat(_)
      flat(k) == IF k = 0 THEN <<>> ELSE flat(k - 1) \o chains[k]
  IN  flat(Len(chains))

\* clearChain that empties the chain and leaves it in the list
clearChain_LeavesEmpty(s, chainIndex) ==
  IF Len(s.chains) = 0 THEN s
  ELSE LET chainsToRemove ==
             IF chainIndex = null THEN Flat(s.chains)
             ELSE IF Has(s.chains, chainIndex[1]) THEN At(s.chains, chainIndex[1])
             ELSE <<>>
           nextChains ==
             IF chainIndex = null THEN <<>>
             ELSE IF Has(s.chains, chainIndex[1])
                  THEN [s.chains EXCEPT ![chainIndex[1] + 1] = <<>>]
             ELSE s.chains
           ids == {chainsToRemove[k].id : k \in 1..Len(chainsToRemove)}
       IN  [s EXCEPT
              !.dominos = ClearInChain(s.dominos, ids),
              !.chains = nextChains,
              !.history = withHistory(s)]

clearChain(s, chainIndex) ==
  IF Len(s.chains) = 0 THEN s
  ELSE LET chainsToRemove ==
             IF chainIndex = null THEN Flat(s.chains)
             ELSE IF Has(s.chains, chainIndex[1]) THEN At(s.chains, chainIndex[1])
             ELSE <<>>
           \* state.chains.filter((_, i) => i !== chainIndex)
           nextChains ==
             IF chainIndex = null THEN <<>>
             ELSE IF Has(s.chains, chainIndex[1]) THEN RemoveAt(s.chains, chainIndex[1])
             ELSE s.chains
           ids == {chainsToRemove[k].id : k \in 1..Len(chainsToRemove)}
       IN  [s EXCEPT
              !.dominos = ClearInChain(s.dominos, ids),
              !.chains = nextChains,
              !.history = withHistory(s)]

\* reverseChain that reverses the order without swapping the display values
reverseChain_NoSwap(chain) ==
  [k \in 1..Len(chain) |-> chain[Len(chain) + 1 - k]]

reverseChain(chain) ==
  [k \in 1..Len(chain) |->
     LET domino == chain[Len(chain) + 1 - k]
     IN  [domino EXCEPT !.displayValue1 = domino.displayValue2,
                        !.displayValue2 = domino.displayValue1]]

\* canJoinChains that looks at the end of chain1 only
canJoinChains_End1Only(chain1, chain2) ==
  IF Len(chain1) = 0 \/ Len(chain2) = 0 THEN FALSE
  ELSE LET ends1 == getChainEndValues(chain1)
           ends2 == getChainEndValues(chain2)
       IN  \/ ends1.end = ends2.start
           \/ ends1.end = ends2.end

canJoinChains(chain1, chain2) ==
  IF Len(chain1) = 0 \/ Len(chain2) = 0 THEN FALSE
  ELSE LET ends1 == getChainEndValues(chain1)
           ends2 == getChainEndValues(chain2)
       IN  \/ ends1.end = ends2.start
           \/ ends1.end = ends2.end
           \/ ends1.start = ends2.start
           \/ ends1.start = ends2.end

\* joinChains that puts chain1 in front of chain2 when chain1's start meets chain2's end
joinChains_Chain1First(s, chainIndex1, chainIndex2) ==
  IF chainIndex1 = chainIndex2 THEN s
  ELSE IF ~Has(s.chains, chainIndex1) \/ ~Has(s.chains, chainIndex2) THEN s
  ELSE LET chain1 == At(s.chains, chainIndex1)
           chain2 == At(s.chains, chainIndex2)
           ends1 == getChainEndValues(chain1)
           ends2 == getChainEndValues(chain2)
           joinedChain ==
             IF ends1.end = ends2.start THEN chain1 \o chain2
             ELSE IF ends1.end = ends2.end THEN chain1 \o reverseChain(chain2)
             ELSE IF ends1.start = ends2.end THEN chain1 \o chain2
             ELSE reverseChain(chain2) \o chain1
       IN  IF ~canJoinChains(chain1, chain2) THEN s
           ELSE [s EXCEPT
                   !.chains = Append(RemoveBoth(s.chains, chainIndex1, chainIndex2), joinedChain),
                   !.moveCount = s.moveCount + 1,
                   !.history = withHistory(s)]

joinChains(s, chainIndex1, chainIndex2) ==
  IF chainIndex1 = chainIndex2 THEN s
  ELSE IF ~Has(s.chains, chainIndex1) \/ ~Has(s.chains, chainIndex2) THEN s
  ELSE LET chain1 == At(s.chains, chainIndex1)
           chain2 == At(s.chains, chainIndex2)
           ends1 == getChainEndValues(chain1)
           ends2 == getChainEndValues(chain2)
           joinedChain ==
             IF ends1.end = ends2.start THEN chain1 \o chain2
             ELSE IF ends1.end = ends2.end THEN chain1 \o reverseChain(chain2)
             ELSE IF ends1.start = ends2.end THEN chain2 \o chain1
             ELSE reverseChain(chain2) \o chain1
       IN  IF ~canJoinChains(chain1, chain2) THEN s
           ELSE [s EXCEPT
                   !.chains = Append(RemoveBoth(s.chains, chainIndex1, chainIndex2), joinedChain),
                   !.moveCount = s.moveCount + 1,
                   !.history = withHistory(s)]

\* MoveWithin that exchanges the two elements
MoveWithin_Exchange(list, fromIndex, toIndex) ==
  [list EXCEPT ![fromIndex + 1] = list[toIndex + 1], ![toIndex + 1] = list[fromIndex + 1]]

\* the positional move shared by reorderChains, reorderPairs and reorderDominos
MoveWithin(list, fromIndex, toIndex) ==
  InsertAt(RemoveAt(list, fromIndex), toIndex, At(list, fromIndex))

reorderChains(s, fromIndex, toIndex) ==
  IF fromIndex = toIndex THEN s
  ELSE IF fromIndex < 0 \/ fromIndex >= Len(s.chains) THEN s
  ELSE IF toIndex < 0 \/ toIndex >= Len(s.chains) THEN s
  ELSE [s EXCEPT !.chains = MoveWithin(s.chains, fromIndex, toIndex),
                 !.history = withHistory(s)]

\* reorderPairs without the fromIndex === toIndex test
reorderPairs_NoSameIndexTest(s, fromIndex, toIndex) ==
  IF fromIndex < 0 \/ fromIndex >= Len(s.pairs) THEN s
  ELSE IF toIndex < 0 \/ toIndex >= Len(s.pairs) THEN s
  ELSE [s EXCEPT !.pairs = MoveWithin(s.pairs, fromIndex, toIndex),
                 !.history = withHistory(s)]

reorderPairs(s, fromIndex, toIndex) ==
  IF fromIndex = toIndex THEN s
  ELSE IF fromIndex < 0 \/ fromIndex >= Len(s.pairs) THEN s
  ELSE IF toIndex < 0 \/ toIndex >= Len(s.pairs) THEN s
  ELSE [s EXCEPT !.pairs = MoveWithin(s.pairs, fromIndex, toIndex),
                 !.history = withHistory(s)]

\* reorderDominos that counts as a move
reorderDominos_Counted(s, fromIndex, toIndex) ==
  IF fromIndex = toIndex THEN s
  ELSE IF fromIndex < 0 \/ fromIndex >= Len(s.dominos) THEN s
  ELSE IF toIndex < 0 \/ toIndex >= Len(s.dominos) THEN s
  ELSE [s EXCEPT !.dominos = MoveWithin(s.dominos, fromIndex, toIndex),
                 !.moveCount = s.moveCount + 1,
                 !.history = withHistory(s)]

reorderDominos(s, fromIndex, toIndex) ==
  IF fromIndex = toIndex THEN s
  ELSE IF fromIndex < 0 \/ fromIndex >= Len(s.dominos) THEN s
  ELSE IF toIndex < 0 \/ toIndex >= Len(s.dominos) THEN s
  ELSE [s EXCEPT !.dominos = MoveWithin(s.dominos, fromIndex, toIndex),
                 !.history = withHistory(s)]

\* checkCircular that reads value1 and value2 where the chain stores the
\* orientation in displayValue1 and displayValue2
checkCircular_Raw(chain) ==
  IF Len(chain) < 2 THEN FALSE
  ELSE chain[1].value1 = chain[Len(chain)].value2

checkCircular(chain) ==
  IF Len(chain) < 2 THEN FALSE
  ELSE getChainEndValues(chain).start = getChainEndValues(chain).end

\* checkWin without the totalCards === 52 test
checkWin_NoCount(chains) ==
  IF Len(chains) # 1 THEN FALSE
  ELSE checkCircular(chains[1])

checkWin(chains) ==
  IF Len(chains) # 1 THEN FALSE
  ELSE Len(chains[1]) * 4 = 52 /\ checkCircular(chains[1])

RECURSIVE getTotalChainLength(_)
getTotalChainLength(chains) ==
  IF Len(chains) = 0 THEN 0
  ELSE Len(chains[1]) + getTotalChainLength(Tail(chains))

RECURSIVE countTableauCards(_)
countTableauCards(tableau) ==
  IF Len(tableau) = 0 THEN 0
  ELSE Len(tableau[1]) + countTableauCards(Tail(tableau))

(***************************************************************************)
(* The games played.  WinningDeck is a shuffled deck and WinningLine a     *)
(* sequence of calls that wins it; the model plays that line and, from     *)
(* every state on it, up to MaxFree arbitrary other calls.                 *)
(***************************************************************************)
WinningDeck ==
  <<
     "JH", "3C", "5S", "9D", "8H", "6C", "3S", "JD",
     "5H", "9C", "8S", "6D", "6H", "8C", "7S", "7D",
     "10H", "4C", "6S", "8D", "QH", "2C", "4S", "10D",
     "7H", "7C", "2S", "QD", "3H", "JC", "10S", "4D",
     "4H", "10C", "9S", "5D", "AH", "KC", "KS", "AD",
     "2H", "QC", "JS", "3D", "KH", "AC", "QS", "2D",
     "9H", "5C", "AS", "KD"
  >>

WinningLine ==
  <<
     [op |-> "createPairFromTableau", args |-> <<0, 1>>],
     [op |-> "undoState", args |-> <<>>],
     [op |-> "createPairFromTableau", args |-> <<1, 0>>],
     [op |-> "createPairFromTableau", args |-> <<2, 3>>],
     [op |-> "createPairFromTableau", args |-> <<5, 4>>],
     [op |-> "createPairFromTableau", args |-> <<6, 7>>],
     [op |-> "createPairFromTableau", args |-> <<0, 1>>],
     [op |-> "createPairFromTableau", args |-> <<3, 2>>],
     [op |-> "reorderPairs", args |-> <<0, 2>>],
     [op |-> "createDominoFromPairs", args |-> <<2, 0>>],
     [op |-> "createDominoFromPairs", args |-> <<1, 0>>],
     [op |-> "createDominoFromPairs", args |-> <<0, 1>>],
     [op |-> "reorderDominos", args |-> <<2, 0>>],
     [op |-> "addDominoToChain", args |-> <<1, null>>],
     [op |-> "addDominoToChain", args |-> <<2, null>>],
     [op |-> "addDominoToChain", args |-> <<0, null>>],
     [op |-> "removeLastFromChain", args |-> <<1>>],
     [op |-> "addDominoToChain", args |-> <<0, <<1>>>>],
     [op |-> "createPairFromTableau", args |-> <<4, 5>>],
     [op |-> "createPairFromTableau", args |-> <<7, 6>>],
     [op |-> "createDominoFromPairs", args |-> <<1, 0>>],
     [op |-> "addDominoToChain", args |-> <<3, <<1>>>>],
     [op |-> "joinChains", args |-> <<1, 0>>],
     [op |-> "createPairFromTableau", args |-> <<0, 1>>],
     [op |-> "createPairFromTableau", args |-> <<2, 3>>],
     [op |-> "createPairFromTableau", args |-> <<5, 4>>],
     [op |-> "createPairFromTableau", args |-> <<6, 7>>],
     [op |-> "createDominoFromPairs", args |-> <<2, 3>>],
     [op |-> "createDominoFromPairs", args |-> <<1, 0>>],
     [op |-> "addDominoToChain", args |-> <<5, null>>],
     [op |-> "addDominoToChain", args |-> <<4, null>>],
     [op |-> "reorderChains", args |-> <<0, 1>>],
     [op |-> "joinChains", args |-> <<1, 0>>],
     [op |-> "createPairFromTableau", args |-> <<0, 1>>],
     [op |-> "createPairFromTableau", args |-> <<2, 3>>],
     [op |-> "createPairFromTableau", args |-> <<4, 5>>],
     [op |-> "createPairFromTableau", args |-> <<6, 7>>],
     [op |-> "createPairFromTableau", args |-> <<1, 0>>],
     [op |-> "createPairFromTableau", args |-> <<2, 3>>],
     [op |-> "createDominoFromPairs", args |-> <<2, 3>>],
     [op |-> "createDominoFromPairs", args |-> <<1, 0>>],
     [op |-> "createDominoFromPairs", args |-> <<0, 1>>],
     [op |-> "addDominoToChain", args |-> <<7, null>>],
     [op |-> "addDominoToChain", args |-> <<6, <<1>>>>],
     [op |-> "addDominoToChain", args |-> <<8, <<1>>>>],
     [op |-> "createPairFromTableau", args |-> <<4, 5>>],
     [op |-> "createPairFromTableau", args |-> <<6, 7>>],
     [op |-> "createDominoFromPairs", args |-> <<0, 1>>],
     [op |-> "addDominoToChain", args |-> <<9, <<0>>>>],
     [op |-> "clearChain", args |-> <<<<2>>>>],
     [op |-> "addDominoToChain", args |-> <<9, <<0>>>>],
     [op |-> "createPairFromTableau", args |-> <<0, 1>>],
     [op |-> "createPairFromTableau", args |-> <<3, 2>>],
     [op |-> "createDominoFromPairs", args |-> <<1, 0>>],
     [op |-> "addDominoToChain", args |-> <<10, <<2>>>>],
     [op |-> "joinChains", args |-> <<2, 1>>],
     [op |-> "joinChains", args |-> <<1, 0>>],
     [op |-> "createPairFromTableau", args |-> <<4, 5>>],
     [op |-> "undoState", args |-> <<>>],
     [op |-> "createPairFromTableau", args |-> <<4, 5>>],
     [op |-> "createPairFromTableau", args |-> <<6, 7>>],
     [op |-> "createPairFromTableau", args |-> <<0, 1>>],
     [op |-> "moveCard", args |-> <<2, 3>>],
     [op |-> "moveCard", args |-> <<3, 0>>],
     [op |-> "createPairFromTableau", args |-> <<0, 3>>],
     [op |-> "createDominoFromPairs", args |-> <<0, 1>>],
     [op |-> "createDominoFromPairs", args |-> <<1, 0>>],
     [op |-> "addDominoToChain", args |-> <<12, null>>],
     [op |-> "addDominoToChain", args |-> <<11, null>>],
     [op |-> "joinChains", args |-> <<0, 1>>]
  >>

\* the unshuffled deck, played without a line
SortedDeck == [k \in 1..52 |-> createDeck[k].id]

MaxFree == 1

MaxIndex == 2

\* indices tried by the calls off the line: -1, 0..MaxIndex and one index past
\* the end of the longest list
IndexArgs == (0 - 1)..MaxIndex

ColArgs == IndexArgs \cup {COLUMN_COUNT}

PairArgs == IndexArgs \cup {MAX_PAIRS}

ChainArgs == {null} \cup {<<k>> : k \in IndexArgs}

\* the next call of the line, while the game is still on it
NextStep ==
  IF free = 0 /\ pc < Len(WinningLine) /\ state.tableau # <<>>
  THEN {WinningLine[pc + 1]} ELSE {}

LineArgs(op) == {st.args : st \in {x \in NextStep : x.op = op}}

OnLine(op, args) == \E st \in NextStep : st.op = op /\ st.args = args

\* The id createDominoFromPairs builds from Date.now() and Math.random() is a
\* value the call reads from its environment.  Ids are only ever compared for
\* equality, so they are numbered: the call draws a number above every id
\* drawn before, at most MaxIdStep above the last one.
MaxIdStep == 2

DominoIds == (clock + 1)..(clock + MaxIdStep)

\* the id of the domino a successful createDominoFromPairs appended
DrawnId(next) == next.dominos[Len(next.dominos)].id

\* the call is the next call of the line (the line is played with the lowest ids)
Recorded(op, args, next) ==
  /\ OnLine(op, args)
  /\ op = "createDominoFromPairs" => DrawnId(next) = clock + 1

\* One call of a transition function that returned next.  A call that returns
\* its input leaves every variable unchanged: it is a stuttering step.
Call(op, args, next) ==
  /\ OnLine(op, args) \/ free < MaxFree
  /\ next # state
  /\ Recorded(op, args, next) \/ free < MaxFree
  /\ state' = next
  /\ last' = [op |-> op, args |-> args]
  /\ clock' = IF op = "createDominoFromPairs" THEN DrawnId(next) ELSE clock
  /\ IF Recorded(op, args, next)
     THEN pc' = pc + 1 /\ free' = free
     ELSE free' = free + 1 /\ pc' = pc

Init ==
  /\ \E deck \in {WinningDeck, SortedDeck} :
       /\ state = createInitialState(deck)
       /\ pc = IF deck = WinningDeck THEN 0 ELSE Len(WinningLine)
  /\ clock = 0
  /\ last = [op |-> "createInitialState", args |-> <<>>]
  /\ free = 0

MoveCard ==
  \E a \in (ColArgs \X ColArgs) \cup LineArgs("moveCard") :
    Call("moveCard", a, moveCard(state, a[1], a[2]))

CreatePairFromTableau ==
  \E a \in (ColArgs \X ColArgs) \cup LineArgs("createPairFromTableau") :
    Call("createPairFromTableau", a, createPairFromTableau(state, a[1], a[2]))

CreateDominoFromPairs ==
  \E a \in (PairArgs \X PairArgs) \cup LineArgs("createDominoFromPairs") :
    \E id \in DominoIds :
      Call("createDominoFromPairs", a, createDominoFromPairs(state, a[1], a[2], id))

AddDominoToChain ==
  \E a \in {<<d, c>> : d \in IndexArgs, c \in ChainArgs} \cup LineArgs("addDominoToChain") :
    Call("addDominoToChain", a, addDominoToChain(state, a[1], a[2]))

RemoveLastFromChain ==
  \E a \in {<<c>> : c \in IndexArgs} \cup LineArgs("removeLastFromChain") :
    Call("removeLastFromChain", a, removeLastFromChain(state, a[1]))

ClearChain ==
  \E a \in {<<c>> : c \in ChainArgs} \cup LineArgs("clearChain") :
    Call("clearChain", a, clearChain(state, a[1]))

JoinChains ==
  \E a \in (IndexArgs \X IndexArgs) \cup LineArgs("joinChains") :
    Call("joinChains", a, joinChains(state, a[1], a[2]))

ReorderChains ==
  \E a \in (IndexArgs \X IndexArgs) \cup LineArgs("reorderChains") :
    Call("reorderChains", a, reorderChains(state, a[1], a[2]))

ReorderPairs ==
  \E a \in (PairArgs \X PairArgs) \cup LineArgs("reorderPairs") :
    Call("reorderPairs", a, reorderPairs(state, a[1], a[2]))

ReorderDominos ==
  \E a \in (IndexArgs \X IndexArgs) \cup LineArgs("reorderDominos") :
    Call("reorderDominos", a, reorderDominos(state, a[1], a[2]))

UndoState == Call("undoState", <<>>, undoState(state))

Next ==
  \/ MoveCard
  \/ CreatePairFromTableau
  \/ CreateDominoFromPairs
  \/ AddDominoToChain
  \/ RemoveLastFromChain
  \/ ClearChain
  \/ JoinChains
  \/ ReorderChains
  \/ ReorderPairs
  \/ ReorderDominos
  \/ UndoState

Spec == Init /\ [][Next]_vars

(***************************************************************************)
(* checkWin as a function of its argument: the chain lists it is given     *)
(* are drawn from a bounded family, whether or not a game can reach them.  *)
(***************************************************************************)
MaxChains == 2
ChainLengths == {0, 1, 2, 12, 13, 14}
EndLabels == {<<"A", "K">>, <<"5", "9">>}

\* a chain entry shown as a | b; flipped entries store the labels the other way round
ChainEntry(a, b, flipped) ==
  [value1 |-> IF flipped THEN b ELSE a, value2 |-> IF flipped THEN a ELSE b,
   displayValue1 |-> a, displayValue2 |-> b]

\* a chain of n entries whose adjacent labels match, from label a to label b
ChainOf(n, a, b, flipped) ==
  LET mid == <<"2", "Q">>
  IN  [k \in 1..n |->
         ChainEntry(IF k = 1 THEN a ELSE mid, IF k = n THEN b ELSE mid,
                    flipped /\ k = 1)]

ChainInputs ==
  {ChainOf(n, a, b, f) : n \in ChainLengths, a \in EndLabels, b \in EndLabels, f \in BOOLEAN}

ChainListInputs ==
  UNION {[1..n -> ChainInputs] : n \in 0..MaxChains}

CheckWinInit ==
  /\ \E chains \in ChainListInputs :
        state = [tableau |-> <<>>, pairs |-> <<>>, dominos |-> <<>>,
                 chains |-> chains, moveCount |-> 0, history |-> <<>>]
  /\ clock = 0
  /\ last = [op |-> "createInitialState", args |-> <<>>]
  /\ pc = 0
  /\ free = 0

\* if (checkWin(state.chains)) ...
CheckWin ==
  /\ last.op # "checkWin"
  /\ last' = [op |-> "checkWin", args |-> <<checkWin(state.chains)>>]
  /\ UNCHANGED <<state, clock, pc, free>>

CheckWinNext == CheckWin

CheckWinSpec == CheckWinInit /\ [][CheckWinNext]_vars

(***************************************************************************)
(* A new game: createInitialState(shuffleDeck(createDeck(), rng)), with    *)
(* shuffleDeck and dealTableau as functions of their arguments.  Decks are *)
(* the first cards of createDeck, up to MaxDeck of them, and all 52.       *)
(***************************************************************************)
MaxDeck == 4
MaxColumns == 3

DeckInputs == {SubSeq(SortedDeck, 1, m) : m \in (0..MaxDeck) \cup {52}}

\* the values rng() returns during one shuffleDeck(deck, rng): one per loop
\* iteration; every sequence for the short decks, the constant ones for 52 cards
RngInputs(deck) ==
  IF Len(deck) <= MaxDeck
  THEN [1..(Len(deck) - 1) -> 0..(RngDenominator - 1)]
  ELSE {[k \in 1..(Len(deck) - 1) |-> r] : r \in 0..(RngDenominator - 1)}

ColumnCounts == (1..MaxColumns) \cup {COLUMN_COUNT}

NewGameInit ==
  /\ \E deck \in DeckInputs : \E rng \in RngInputs(deck) : \E columnCount \in ColumnCounts :
        last = [op |-> "createDeck", args |-> <<deck, rng, columnCount>>]
  /\ state = [tableau |-> <<>>, pairs |-> <<>>, dominos |-> <<>>,
              chains |-> <<>>, moveCount |-> 0, history |-> <<>>]
  /\ clock = 0
  /\ pc = 0
  /\ free = 0

\* shuffleDeck(deck, rng); args keeps the argument array and the returned array
ShuffleDeck ==
  /\ last.op = "createDeck"
  /\ LET out == shuffleDeck(last.args[1], last.args[2])
     IN  last' = [op |-> "shuffleDeck",
                  args |-> <<last.args[1], last.args[2], last.args[3], out.deck, out.copy>>]
  /\ UNCHANGED <<state, clock, pc, free>>

\* tableau: dealTableau(deck) on the shuffled deck
DealTableau ==
  /\ last.op = "shuffleDeck"
  /\ state' = [state EXCEPT !.tableau = dealTableau(last.args[5], last.args[3])]
  /\ last' = [op |-> "dealTableau", args |-> last.args]
  /\ UNCHANGED <<clock, pc, free>>

NewGameNext == ShuffleDeck \/ DealTableau

NewGameSpec == NewGameInit /\ [][NewGameNext]_vars

(***************************************************************************)
(* Undo after a run: the actions of the line go through the reducer one    *)
(* by one, and from every state reached UNDO is dispatched for as long as  *)
(* it changes the state.  last.args keeps the tableau, pairs, dominos,     *)
(* chains and moveCount of the states of the run since the last state with *)
(* an empty history (nothing once an UNDO of the line has left a history   *)
(* that is not empty); free counts the UNDOs dispatched after the run.     *)
(***************************************************************************)
\* reducer with UNDO undoing two transitions
reducer_UndoTwice(s, action, id) ==
  CASE action.op = "undoState" -> undoState(undoState(s))
    [] action.op = "moveCard" -> moveCard(s, action.args[1], action.args[2])
    [] action.op = "createPairFromTableau" ->
         createPairFromTableau(s, action.args[1], action.args[2])
    [] action.op = "createDominoFromPairs" ->
         createDominoFromPairs(s, action.args[1], action.args[2], id)
    [] action.op = "addDominoToChain" ->
         addDominoToChain(s, action.args[1], action.args[2])
    [] action.op = "removeLastFromChain" -> removeLastFromChain(s, action.args[1])
    [] action.op = "clearChain" -> clearChain(s, action.args[1])
    [] action.op = "joinChains" -> joinChains(s, action.args[1], action.args[2])
    [] action.op = "reorderChains" -> reorderChains(s, action.args[1], action.args[2])
    [] action.op = "reorderPairs" -> reorderPairs(s, action.args[1], action.args[2])
    [] action.op = "reorderDominos" -> reorderDominos(s, action.args[1], action.args[2])
    [] OTHER -> s

\* the reducer of the application; id is the id createDominoFromPairs draws
reducer(s, action, id) ==
  CASE action.op = "undoState" -> undoState(s)
    [] action.op = "moveCard" -> moveCard(s, action.args[1], action.args[2])
    [] action.op = "createPairFromTableau" ->
         createPairFromTableau(s, action.args[1], action.args[2])
    [] action.op = "createDominoFromPairs" ->
         createDominoFromPairs(s, action.args[1], action.args[2], id)
    [] action.op = "addDominoToChain" ->
         addDominoToChain(s, action.args[1], action.args[2])
    [] action.op = "removeLastFromChain" -> removeLastFromChain(s, action.args[1])
    [] action.op = "clearChain" -> clearChain(s, action.args[1])
    [] action.op = "joinChains" -> joinChains(s, action.args[1], action.args[2])
    [] action.op = "reorderChains" -> reorderChains(s, action.args[1], action.args[2])
    [] action.op = "reorderPairs" -> reorderPairs(s, action.args[1], action.args[2])
    [] action.op = "reorderDominos" -> reorderDominos(s, action.args[1], action.args[2])
    [] OTHER -> s

\* what a run keeps of a state: everything but its history
RunEntry(s) ==
  [tableau |-> s.tableau, pairs |-> s.pairs, dominos |-> s.dominos,
   chains |-> s.chains, moveCount |-> s.moveCount]

UndoInit ==
  /\ state = createInitialState(WinningDeck)
  /\ last = [op |-> "createInitialState", args |-> <<RunEntry(state)>>]
  /\ clock = 0
  /\ pc = 0
  /\ free = 0

\* the run after the action that returned next
RunAfter(action, next) ==
  IF action.op = "undoState"
  THEN IF Len(next.history) = 0 THEN <<RunEntry(next)>> ELSE <<>>
  ELSE IF last.args = <<>> THEN <<>> ELSE Append(last.args, RunEntry(next))

\* dispatch(action) for the next action of the line
Dispatch ==
  /\ free = 0
  /\ pc < Len(WinningLine)
  /\ LET action == WinningLine[pc + 1]
         next == reducer(state, action, clock + 1)
     IN  /\ next # state
         /\ state' = next
         /\ last' = [op |-> action.op, args |-> RunAfter(action, next)]
         /\ clock' = IF action.op = "createDominoFromPairs" THEN clock + 1 ELSE clock
  /\ pc' = pc + 1
  /\ free' = free

\* dispatch({ type: 'UNDO' }) after the run, while there is something to undo
Undo ==
  /\ LET next == reducer(state, [op |-> "undoState", args |-> <<>>], clock + 1)
     IN  /\ next # state
         /\ state' = next
  /\ last' = [last EXCEPT !.op = "undoState"]
  /\ free' = free + 1
  /\ UNCHANGED <<clock, pc>>

UndoNext == Dispatch \/ Undo

UndoSpec == UndoInit /\ [][UndoNext]_vars

(***************************************************************************)
(* Properties                                                              *)
(***************************************************************************)
RECURSIVE Concat(_)
Concat(seqs) == IF Len(seqs) = 0 THEN <<>> ELSE seqs[1] \o Concat(Tail(seqs))

Range(a) == {a[k] : k \in 1..Len(a)}

\* the cards of the tableau, of the pairs and of the dominos, in that order
HeldCards(s) ==
  Concat(s.tableau) \o Concat(s.pairs)
    \o Concat([i \in 1..Len(s.dominos) |-> s.dominos[i].pair1 \o s.dominos[i].pair2])

TableauCards(s) == Range(Concat(s.tableau))

Calls == {"moveCard", "createPairFromTableau", "createDominoFromPairs",
          "addDominoToChain", "removeLastFromChain", "clearChain", "joinChains",
          "reorderChains", "reorderPairs", "reorderDominos"}

\* C1: in every reachable state the cards of the tableau columns, of
\* state.pairs and of the dominos of state.dominos are together exactly the 52
\* dealt cards, each exactly once: tableau cards + 2*|pairs| + 4*|dominos| = 52.
CardConservation ==
  LET held == HeldCards(state)
  IN  /\ Len(held) = 52
      /\ Range(held) = CardIds
      /\ \A i \in 1..Len(state.pairs) : Len(state.pairs[i]) = 2
      /\ countTableauCards(state.tableau) + 2 * Len(state.pairs)
           + 4 * Len(state.dominos) = 52

\* an undo that restored a state with cards in the tableau, in pairs and in dominos
CardConservationWitness ==
  /\ last.op = "undoState"
  /\ Len(state.pairs) > 0
  /\ Len(state.dominos) > 0
  /\ countTableauCards(state.tableau) > 0

\* C2: for every call other than undoState that returns a changed state,
\* undoState of the result has the tableau, pairs, dominos, chains and
\* moveCount of the state before the call; also when history was full.
UndoRoundTrip ==
  [][last'.op # "undoState" =>
       LET undone == undoState(state')
       IN  /\ undone.tableau = state.tableau
           /\ undone.pairs = state.pairs
           /\ undone.dominos = state.dominos
           /\ undone.chains = state.chains
           /\ undone.moveCount = state.moveCount]_vars

\* undoState has acted on the result of a call made with a full history from
\* which older entries had already been evicted
UndoRoundTripWitness ==
  /\ last.op = "undoState"
  /\ Len(state.history) = MAX_HISTORY - 1
  /\ state.history[1].moveCount > 0

\* every column index, one below and one above
AllCols == (0 - 1)..COLUMN_COUNT

\* every index of a list, one below and one above
Indices(list) == (0 - 1)..Len(list)

\* the preconditions the transition functions declare invalid
InvalidMove(s, f, t) ==
  \/ f = t \/ ~Has(s.tableau, f) \/ ~Has(s.tableau, t)
  \/ Len(At(s.tableau, f)) = 0
  \/ Len(At(s.tableau, t)) # 0 /\ ~canStack(Top(At(s.tableau, f)), Top(At(s.tableau, t)))

InvalidPair(s, f, t) ==
  \/ Len(s.pairs) >= MAX_PAIRS
  \/ f = t \/ ~Has(s.tableau, f) \/ ~Has(s.tableau, t)
  \/ ~canPair(Top(At(s.tableau, f)), Top(At(s.tableau, t)))

InvalidDomino(s, i, j) ==
  \/ i = j \/ ~Has(s.pairs, i) \/ ~Has(s.pairs, j)
  \/ ~canFormDomino(At(s.pairs, i), At(s.pairs, j))

InvalidAdd(s, d, c) ==
  \/ ~Has(s.dominos, d)
  \/ At(s.dominos, d).inChain
  \/ c # null /\ ~Has(s.chains, c[1])

InvalidJoin(s, i, j) ==
  \/ i = j \/ ~Has(s.chains, i) \/ ~Has(s.chains, j)
  \/ ~canJoinChains(At(s.chains, i), At(s.chains, j))

InvalidReorder(list, i, j) == i = j \/ ~Has(list, i) \/ ~Has(list, j)

\* C3: every transition function called with an invalid precondition (an
\* index out of range, two equal indices, incompatible cards, pairs or chains,
\* a full pair pool) returns a state equal to its input in every field.
RejectByNoOp ==
  /\ \A f \in AllCols, t \in AllCols :
       /\ InvalidMove(state, f, t) => moveCard(state, f, t) = state
       /\ InvalidPair(state, f, t) => createPairFromTableau(state, f, t) = state
  /\ \A i \in Indices(state.pairs), j \in Indices(state.pairs) :
       /\ InvalidDomino(state, i, j) => createDominoFromPairs(state, i, j, clock + 1) = state
       /\ InvalidReorder(state.pairs, i, j) => reorderPairs(state, i, j) = state
  /\ \A d \in Indices(state.dominos), c \in {null} \cup {<<k>> : k \in Indices(state.chains)} :
       InvalidAdd(state, d, c) => addDominoToChain(state, d, c) = state
  /\ \A i \in Indices(state.chains), j \in Indices(state.chains) :
       /\ InvalidJoin(state, i, j) => joinChains(state, i, j) = state
       /\ InvalidReorder(state.chains, i, j) => reorderChains(state, i, j) = state
  /\ \A i \in Indices(state.dominos), j \in Indices(state.dominos) :
       InvalidReorder(state.dominos, i, j) => reorderDominos(state, i, j) = state
  /\ \A c \in Indices(state.chains) :
       ~Has(state.chains, c) =>
         /\ removeLastFromChain(state, c) = state
         /\ clearChain(state, <<c>>) = state

\* C4: history never holds more than 50 entries, and a call that changes a
\* state whose history holds 50 entries drops the entry at index 0, keeps the
\* other 49 in order and puts the snapshot of the state before the call last.
HistoryBound ==
  [][/\ Len(state.history) <= MAX_HISTORY
     /\ Len(state'.history) <= MAX_HISTORY
     /\ (last'.op # "undoState" /\ Len(state.history) = MAX_HISTORY) =>
          state'.history =
            Tail(state.history) \o
              <<[tableau |-> state.tableau, pairs |-> state.pairs,
                 dominos |-> state.dominos, chains |-> state.chains,
                 moveCount |-> state.moveCount]>>]_vars

\* a call has acted on a full history whose oldest entries were evicted before
HistoryBoundWitness ==
  /\ last.op \in Calls
  /\ Len(state.history) = MAX_HISTORY
  /\ state.history[1].moveCount >= 3

\* number of chain entries that carry the id
Occurrences(s, id) ==
  Cardinality(UNION {{<<c, k>> : k \in {j \in 1..Len(s.chains[c]) : s.chains[c][j].id = id}} :
                       c \in 1..Len(s.chains)})

\* C5: each domino of state.dominos occurs in at most one chain and at most
\* once in it, its inChain flag is true iff a chain entry with its id exists,
\* and the total length of the chains is the number of dominos with inChain.
InChainConsistency ==
  /\ \A i \in 1..Len(state.dominos) :
       /\ Occurrences(state, state.dominos[i].id) <= 1
       /\ state.dominos[i].inChain <=> Occurrences(state, state.dominos[i].id) = 1
  /\ getTotalChainLength(state.chains) =
       Cardinality({i \in 1..Len(state.dominos) : state.dominos[i].inChain})

\* a domino was taken off a chain while other dominos stay chained
InChainConsistencyWitness ==
  /\ last.op \in {"removeLastFromChain", "clearChain"}
  /\ \E i \in 1..Len(state.dominos) : state.dominos[i].inChain
  /\ \E i \in 1..Len(state.dominos) : ~state.dominos[i].inChain

\* C6: in every chain each member's displayValue2 is the next member's
\* displayValue1, and (displayValue1, displayValue2) of every member is
\* (value1, value2) or (value2, value1) of that domino.
ChainAdjacency ==
  \A c \in 1..Len(state.chains) :
    LET chain == state.chains[c]
    IN  /\ \A i \in 1..(Len(chain) - 1) :
             chain[i].displayValue2 = chain[i + 1].displayValue1
        /\ \A i \in 1..Len(chain) :
             \/ /\ chain[i].displayValue1 = chain[i].value1
                /\ chain[i].displayValue2 = chain[i].value2
             \/ /\ chain[i].displayValue1 = chain[i].value2
                /\ chain[i].displayValue2 = chain[i].value1

\* a join produced a chain of four or more dominos with a flipped member
ChainAdjacencyWitness ==
  /\ last.op = "joinChains"
  /\ \E c \in 1..Len(state.chains) :
       /\ Len(state.chains[c]) >= 4
       /\ \E i \in 1..Len(state.chains[c]) :
            state.chains[c][i].displayValue1 # state.chains[c][i].value1

\* C7 as stated: moveCount never decreases on any step, undoState included.
MoveCountNeverDecreases ==
  [][state'.moveCount >= state.moveCount]_vars

\* C7 amended: moveCount never decreases on a step of any transition function
\* other than undoState.
MoveCountNeverDecreasesExceptUndo ==
  [][last'.op # "undoState" => state'.moveCount >= state.moveCount]_vars

\* a call that leaves moveCount alone has acted after moves were counted
MoveCountWitness ==
  /\ last.op = "removeLastFromChain"
  /\ state.moveCount > 0

\* C8 as stated: a card that has left the tableau is never put back into a
\* tableau column by any later step, undoState included.
PairsAreOneWaySink ==
  [][TableauCards(state') \subseteq TableauCards(state)]_vars

\* C8 amended: no step of a transition function other than undoState puts a
\* card into the tableau that was not in it, and none increases the number of
\* tableau cards.
PairsAreOneWaySinkExceptUndo ==
  [][last'.op # "undoState" =>
       /\ TableauCards(state') \subseteq TableauCards(state)
       /\ countTableauCards(state'.tableau) <= countTableauCards(state.tableau)]_vars

\* a chain was cleared while pairs exist: their cards stay out of the tableau
OneWaySinkWitness ==
  /\ last.op = "clearChain"
  /\ Len(state.pairs) > 0
  /\ countTableauCards(state.tableau) < 52

\* C9: state.pairs never holds more than 6 pairs, and createPairFromTableau on
\* a state with 6 pairs returns its input, also when the two tops can pair.
PairCapacity ==
  /\ Len(state.pairs) <= MAX_PAIRS
  /\ Len(state.pairs) = MAX_PAIRS =>
       \A f \in AllCols, t \in AllCols : createPairFromTableau(state, f, t) = state

\* the pool is full and two column tops can pair
PairCapacityWitness ==
  /\ Len(state.pairs) = MAX_PAIRS
  /\ \E f \in 0..(COLUMN_COUNT - 1), t \in 0..(COLUMN_COUNT - 1) :
       f # t /\ canPair(Top(At(state.tableau, f)), Top(At(state.tableau, t)))

\* C10: in every state where checkWin(state.chains) holds, every tableau
\* column is empty, state.pairs is empty and state.dominos has exactly 13
\* dominos, all with inChain = true.
WinMeansBoardCleared ==
  checkWin(state.chains) =>
    /\ \A c \in 1..Len(state.tableau) : Len(state.tableau[c]) = 0
    /\ Len(state.pairs) = 0
    /\ Len(state.dominos) = 13
    /\ \A i \in 1..Len(state.dominos) : state.dominos[i].inChain

\* the game has been won
WinReached ==
  /\ checkWin(state.chains)
  /\ last.op = "joinChains"
(***************************************************************************)
(* C11  checkWin(chains) is true exactly when there is one chain, it holds *)
(* 13 dominos, and it is circular: at least two dominos, and the           *)
(* displayValue1 of the first equals the displayValue2 of the last.        *)
(***************************************************************************)
Circular(chain) ==
  /\ Len(chain) >= 2
  /\ chain[1].displayValue1 = chain[Len(chain)].displayValue2

WinExactly(chains) ==
  /\ Len(chains) = 1
  /\ Len(chains[1]) = 13
  /\ Circular(chains[1])

\* C11: the answer checkWin gave is true exactly for one circular chain of 13 dominos
CheckWinExact ==
  last.op = "checkWin" => (last.args[1] <=> WinExactly(state.chains))

\* checkWin has answered false for a single chain of 13 dominos that is not circular
CheckWinExactWitness ==
  /\ last.op = "checkWin"
  /\ ~last.args[1]
  /\ Len(state.chains) = 1
  /\ Len(state.chains[1]) = 13
  /\ ~Circular(state.chains[1])

(***************************************************************************)
(* C12  A domino that is not in a chain can always be placed:              *)
(* addDominoToChain with chainIndex = null marks it inChain and puts it in *)
(* exactly one chain, either an existing chain made one longer or a new    *)
(* one-domino chain appended to the chain list.                            *)
(***************************************************************************)
Unplaced == {d \in 0..(Len(state.dominos) - 1) : ~At(state.dominos, d).inChain}

\* chain `longer` is chain `shorter` with one entry of the given id put at its end or start
ExtendedByOne(longer, shorter, id) ==
  /\ Len(longer) = Len(shorter) + 1
  /\ \/ longer = Append(shorter, longer[Len(longer)]) /\ longer[Len(longer)].id = id
     \/ longer = <<longer[1]>> \o shorter /\ longer[1].id = id

\* C12: every domino with inChain = false is placed by addDominoToChain(state, d, null)
DominosNeverUnplaceable ==
  \A d \in Unplaced :
    LET next == addDominoToChain(state, d, null)
        id == At(state.dominos, d).id
    IN  /\ At(next.dominos, d).inChain
        /\ Occurrences(next, id) = 1
        /\ \/ /\ Len(next.chains) = Len(state.chains)
              /\ \E c \in 1..Len(state.chains) :
                    /\ ExtendedByOne(next.chains[c], state.chains[c], id)
                    /\ \A o \in 1..Len(state.chains) :
                          o # c => next.chains[o] = state.chains[o]
           \/ /\ Len(next.chains) = Len(state.chains) + 1
              /\ next.chains = Append(state.chains, <<next.chains[Len(next.chains)][1]>>)
              /\ next.chains[Len(next.chains)][1].id = id

\* a domino that no chain end accepts has been placed as a new chain beside
\* existing chains, and another domino is still waiting to be placed
DominosNeverUnplaceableWitness ==
  /\ last.op = "addDominoToChain"
  /\ last.args[2] = null
  /\ Len(state.chains) >= 2
  /\ Len(state.chains[Len(state.chains)]) = 1
  /\ state.chains[Len(state.chains)][1].originalIndex = last.args[1]
  /\ Unplaced # {}

(***************************************************************************)
(* C13  With no chains, addDominoToChain starts a new one-domino chain     *)
(* for a domino that is not in a chain, whatever chainIndex is passed.     *)
(***************************************************************************)
\* next is s with domino d wrapped as a new last chain, unflipped and marked
StartsNewChain(s, d, next) ==
  /\ Len(next.chains) = Len(s.chains) + 1
  /\ \A c \in 1..Len(s.chains) : next.chains[c] = s.chains[c]
  /\ LET chain == next.chains[Len(next.chains)]
     IN  /\ Len(chain) = 1
         /\ chain[1].id = At(s.dominos, d).id
         /\ chain[1].displayValue1 = At(s.dominos, d).value1
         /\ chain[1].displayValue2 = At(s.dominos, d).value2
  /\ At(next.dominos, d).inChain

\* C13: on a state without chains every domino with inChain = false starts a
\* new chain, for chainIndex = null and for every number
NewChainWhenNoChains ==
  Len(state.chains) = 0 =>
    \A d \in Unplaced : \A c \in ChainArgs :
      StartsNewChain(state, d, addDominoToChain(state, d, c))

\* the same for chainIndex = null alone
NewChainWhenNoChainsAndNull ==
  Len(state.chains) = 0 =>
    \A d \in Unplaced : StartsNewChain(state, d, addDominoToChain(state, d, null))

(***************************************************************************)
(* C14  With chainIndex = null and at least one chain, the domino goes to  *)
(* the first chain, in list order, that accepts it at its end or at its    *)
(* start (at the end when the end label matches, otherwise at the start);  *)
(* a new chain is created only when no chain accepts it at either side.    *)
(***************************************************************************)
MatchesEnd(domino, chain) ==
  chain[Len(chain)].displayValue2 \in {domino.value1, domino.value2}

MatchesStart(domino, chain) ==
  chain[1].displayValue1 \in {domino.value1, domino.value2}

\* indices (from 1) of the chains that accept the domino at either side
Accepting(s, domino) ==
  {c \in 1..Len(s.chains) :
     MatchesEnd(domino, s.chains[c]) \/ MatchesStart(domino, s.chains[c])}

\* next is s with domino d attached to chain c: at its end when the end label
\* matches, otherwise at its start
AttachedTo(s, d, c, next) ==
  LET id == At(s.dominos, d).id
      old == s.chains[c]
      new == next.chains[c]
  IN  /\ Len(next.chains) = Len(s.chains)
      /\ \A o \in 1..Len(s.chains) : o # c => next.chains[o] = s.chains[o]
      /\ Len(new) = Len(old) + 1
      /\ IF MatchesEnd(At(s.dominos, d), old)
         THEN new = Append(old, new[Len(new)]) /\ new[Len(new)].id = id
         ELSE new = <<new[1]>> \o old /\ new[1].id = id

\* C14: the null call attaches to the first accepting chain, and starts a new
\* chain only when no chain accepts the domino at its end or start
NullScanTriesBothSides ==
  Len(state.chains) >= 1 =>
    \A d \in Unplaced :
      LET domino == At(state.dominos, d)
          next == addDominoToChain(state, d, null)
          ok == Accepting(state, domino)
      IN  IF ok = {} THEN StartsNewChain(state, d, next)
          ELSE AttachedTo(state, d, CHOOSE c \in ok : \A o \in ok : c <= o, next)

\* the scan as the code runs it: first chain whose END accepts the domino,
\* then end or start of that chain; a new chain when no chain end accepts it
NullScanTriesEndsOnly ==
  Len(state.chains) >= 1 =>
    \A d \in Unplaced :
      LET domino == At(state.dominos, d)
          next == addDominoToChain(state, d, null)
          ok == {c \in 1..Len(state.chains) : MatchesEnd(domino, state.chains[c])}
      IN  IF ok = {} THEN StartsNewChain(state, d, next)
          ELSE AttachedTo(state, d, CHOOSE c \in ok : \A o \in ok : c <= o, next)

(***************************************************************************)
(* C15  moveCard(state, fromCol, toCol) succeeds exactly when the columns  *)
(* are distinct existing columns, the source is not empty, and the         *)
(* destination is empty or the two top cards have equal rank or values     *)
(* that sum to 14; in every other case it returns its input.               *)
(***************************************************************************)
Columns == 0..(Len(state.tableau) - 1)

MoveAllowed(f, t) ==
  /\ f # t
  /\ f \in Columns
  /\ t \in Columns
  /\ Len(At(state.tableau, f)) > 0
  /\ \/ Len(At(state.tableau, t)) = 0
     \/ LET top == card[Top(At(state.tableau, f))]
            target == card[Top(At(state.tableau, t))]
        IN  top.rank = target.rank \/ top.value + target.value = 14

\* C15: the move is made when MoveAllowed, and the input comes back otherwise
MoveCardSucceedsIff ==
  \A f \in AllCols : \A t \in AllCols :
    LET next == moveCard(state, f, t)
    IN  IF MoveAllowed(f, t)
        THEN /\ next # state
             /\ Top(At(next.tableau, t)) = Top(At(state.tableau, f))
             /\ Len(At(next.tableau, f)) = Len(At(state.tableau, f)) - 1
        ELSE next = state

\* a card has been moved to an empty column, and further moves are allowed
MoveCardSucceedsIffWitness ==
  /\ last.op = "moveCard"
  /\ Len(At(state.tableau, last.args[2])) = 1
  /\ \E f \in Columns : \E t \in Columns : MoveAllowed(f, t)

(***************************************************************************)
(* C16  createPairFromTableau(state, fromCol, toCol) succeeds exactly when *)
(* there are fewer than 6 pairs, the columns are distinct and both         *)
(* non-empty, and the two top cards have different colours and values that *)
(* sum to 14.  On success both top cards leave their columns and one pair  *)
(* is appended at the end of state.pairs; otherwise the input is returned. *)
(***************************************************************************)
SumTo14(f, t) ==
  card[Top(At(state.tableau, f))].value + card[Top(At(state.tableau, t))].value = 14

PairAllowed(f, t) ==
  /\ Len(state.pairs) < 6
  /\ f # t
  /\ f \in Columns
  /\ t \in Columns
  /\ Len(At(state.tableau, f)) > 0
  /\ Len(At(state.tableau, t)) > 0
  /\ card[Top(At(state.tableau, f))].isRed # card[Top(At(state.tableau, t))].isRed
  /\ SumTo14(f, t)

\* C16: the pair is made when PairAllowed, and the input comes back otherwise
CreatePairSucceedsIff ==
  \A f \in AllCols : \A t \in AllCols :
    LET next == createPairFromTableau(state, f, t)
    IN  IF PairAllowed(f, t)
        THEN /\ Len(next.tableau) = Len(state.tableau)
             /\ \A c \in Columns :
                   At(next.tableau, c) = IF c \in {f, t} THEN DropLast(At(state.tableau, c))
                                         ELSE At(state.tableau, c)
             /\ Len(next.pairs) = Len(state.pairs) + 1
             /\ SubSeq(next.pairs, 1, Len(state.pairs)) = state.pairs
             /\ Range(next.pairs[Len(next.pairs)]) =
                  {Top(At(state.tableau, f)), Top(At(state.tableau, t))}
        ELSE next = state

\* a pair has been appended behind another one, and of the tops now showing
\* some two can be paired and some two sum to 14 in one colour
CreatePairSucceedsIffWitness ==
  /\ last.op = "createPairFromTableau"
  /\ Len(state.pairs) >= 2
  /\ \E f \in Columns : \E t \in Columns : PairAllowed(f, t)
  /\ \E f \in Columns : \E t \in Columns :
        /\ f # t
        /\ Len(At(state.tableau, f)) > 0
        /\ Len(At(state.tableau, t)) > 0
        /\ SumTo14(f, t)
        /\ ~PairAllowed(f, t)

(***************************************************************************)
(* C17  Every pair of state.pairs, and pair1 and pair2 of every domino, is *)
(* [red card, black card] in that order with values that sum to 14,        *)
(* whichever of the two columns was named first.                           *)
(***************************************************************************)
WellFormedPair(pair) ==
  /\ Len(pair) = 2
  /\ card[pair[1]].isRed
  /\ ~card[pair[2]].isRed
  /\ card[pair[1]].value + card[pair[2]].value = 14

\* C17: pairs are stored red card first, black card second, summing to 14
PairsWellFormed ==
  /\ \A i \in 1..Len(state.pairs) : WellFormedPair(state.pairs[i])
  /\ \A i \in 1..Len(state.dominos) :
       /\ WellFormedPair(state.dominos[i].pair1)
       /\ WellFormedPair(state.dominos[i].pair2)

\* the pair made last took its black card from the column named first, and
\* dominos exist beside the pairs
PairsWellFormedWitness ==
  /\ last.op = "createPairFromTableau"
  /\ Len(state.history) > 0
  /\ LET before == state.history[Len(state.history)]
     IN  ~card[Top(At(before.tableau, last.args[1]))].isRed
  /\ Len(state.pairs) > 0
  /\ Len(state.dominos) > 0

(***************************************************************************)
(* C18  createDominoFromPairs(state, i, j) succeeds exactly when i # j,    *)
(* both indices name pairs of state.pairs, and the four cards of the two   *)
(* pairs have four distinct suits; the labels of the pairs need not be     *)
(* equal.  Every domino holds four cards of four distinct suits.           *)
(***************************************************************************)
SuitsOf(cards) == {card[cards[k]].suit : k \in 1..Len(cards)}

PairIndices == 0..(Len(state.pairs) - 1)

DominoAllowed(i, j) ==
  /\ i # j
  /\ i \in PairIndices
  /\ j \in PairIndices
  /\ Cardinality(SuitsOf(At(state.pairs, i) \o At(state.pairs, j))) = 4

\* C18: a domino is made exactly from two different pairs covering the four
\* suits, and every domino has four cards of four distinct suits
DominoNeedsFourSuits ==
  /\ \A i \in Indices(state.pairs) : \A j \in Indices(state.pairs) :
       (createDominoFromPairs(state, i, j, clock + 1) # state) <=> DominoAllowed(i, j)
  /\ \A d \in 1..Len(state.dominos) :
       /\ Len(state.dominos[d].cards) = 4
       /\ Cardinality(SuitsOf(state.dominos[d].cards)) = 4

\* a domino of two different labels has been made, and of the pairs left two
\* cannot form a domino because they share suits
DominoNeedsFourSuitsWitness ==
  /\ last.op = "createDominoFromPairs"
  /\ Len(state.dominos) > 0
  /\ LET made == state.dominos[Len(state.dominos)]
     IN  made.value1 # made.value2
  /\ \E i \in PairIndices : \E j \in PairIndices : i # j /\ ~DominoAllowed(i, j)

(***************************************************************************)
(* C19  createDominoFromPairs(state, i, j) and (state, j, i) make dominos  *)
(* with the same value1, value2, pair1 and pair2: value1 is the label with *)
(* the smaller lower card value, pair1 carries value1 and pair2 value2.    *)
(***************************************************************************)
\* the domino a successful createDominoFromPairs(state, i, j) appends
Made(i, j) ==
  LET next == createDominoFromPairs(state, i, j, clock + 1)
  IN  next.dominos[Len(next.dominos)]

\* the smaller of the two card values of a pair
LowerValue(pair) ==
  IF card[pair[1]].value <= card[pair[2]].value
  THEN card[pair[1]].value ELSE card[pair[2]].value

\* value1/value2 are the labels of pair1/pair2, the lower label first
Normalised(domino) ==
  /\ domino.value1 = getPairLabel(domino.pair1)
  /\ domino.value2 = getPairLabel(domino.pair2)
  /\ LowerValue(domino.pair1) <= LowerValue(domino.pair2)

\* C19 as stated: both argument orders give the same labels and the same pairs
DominoIndependentOfOrder ==
  \A i \in PairIndices : \A j \in PairIndices :
    DominoAllowed(i, j) =>
      /\ Normalised(Made(i, j))
      /\ Made(i, j).value1 = Made(j, i).value1
      /\ Made(i, j).value2 = Made(j, i).value2
      /\ Made(i, j).pair1 = Made(j, i).pair1
      /\ Made(i, j).pair2 = Made(j, i).pair2

\* C19 amended: the labels never depend on the argument order; the pairs do
\* not when the two labels differ, and follow the argument order when the
\* two pairs have the same label
DominoLabelsIndependentOfOrder ==
  \A i \in PairIndices : \A j \in PairIndices :
    DominoAllowed(i, j) =>
      /\ Normalised(Made(i, j))
      /\ Made(i, j).value1 = Made(j, i).value1
      /\ Made(i, j).value2 = Made(j, i).value2
      /\ IF getPairLabel(At(state.pairs, i)) # getPairLabel(At(state.pairs, j))
         THEN /\ Made(i, j).pair1 = Made(j, i).pair1
              /\ Made(i, j).pair2 = Made(j, i).pair2
         ELSE /\ Made(i, j).pair1 = At(state.pairs, i)
              /\ Made(i, j).pair2 = At(state.pairs, j)

\* a domino has been made of two pairs of one label, named higher index
\* first, and its pair1 is the pair that was named first
DominoLabelsWitness ==
  /\ last.op = "createDominoFromPairs"
  /\ last.args[1] > last.args[2]
  /\ Len(state.history) > 0
  /\ LET before == state.history[Len(state.history)]
         made == state.dominos[Len(state.dominos)]
     IN  /\ made.value1 = made.value2
         /\ made.pair1 = At(before.pairs, last.args[1])
         /\ made.pair1 # made.pair2

(***************************************************************************)
(* C20  A successful createDominoFromPairs(state, i, j) removes exactly    *)
(* the pairs at i and j, for i < j and for i > j, keeps the other pairs in *)
(* their order, and appends one domino with inChain = false at the end of  *)
(* state.dominos.                                                          *)
(***************************************************************************)
\* the pairs of the list at the kept positions (from 1), in their order
RECURSIVE KeptPairs(_, _)
KeptPairs(pairs, kept) ==
  IF Len(pairs) = 0 THEN <<>>
  ELSE LET front == KeptPairs(DropLast(pairs), kept)
       IN  IF Len(pairs) \in kept THEN Append(front, pairs[Len(pairs)]) ELSE front

\* C20: the two pairs named leave the pool, the rest stays in order, and the
\* domino of their four cards is appended, not in a chain
DominoConsumesItsTwoPairs ==
  \A i \in PairIndices : \A j \in PairIndices :
    DominoAllowed(i, j) =>
      LET next == createDominoFromPairs(state, i, j, clock + 1)
          made == next.dominos[Len(next.dominos)]
      IN  /\ next.pairs = KeptPairs(state.pairs, (1..Len(state.pairs)) \ {i + 1, j + 1})
          /\ Len(next.dominos) = Len(state.dominos) + 1
          /\ SubSeq(next.dominos, 1, Len(state.dominos)) = state.dominos
          /\ ~made.inChain
          /\ made.cards \in {At(state.pairs, i) \o At(state.pairs, j),
                              At(state.pairs, j) \o At(state.pairs, i)}

\* a domino has been made of the pairs at i < j, other pairs were kept, the
\* domino stands behind earlier dominos, and calls with i > j are possible
DominoConsumesItsTwoPairsWitness ==
  /\ last.op = "createDominoFromPairs"
  /\ last.args[1] < last.args[2]
  /\ Len(state.pairs) >= 2
  /\ Len(state.dominos) >= 2
  /\ ~state.dominos[Len(state.dominos)].inChain
  /\ \E i \in PairIndices : \E j \in PairIndices : i > j /\ DominoAllowed(i, j)

(***************************************************************************)
(* C21  joinChains orientation.  With (s1, e1) and (s2, e2) the start and  *)
(* end labels of chain1 and chain2, the merged chain is chain1 chain2 if   *)
(* e1 = s2, else chain1 reversed-chain2 if e1 = e2, else chain2 chain1 if  *)
(* s1 = e2, else reversed-chain2 chain1 if s1 = s2.  It holds exactly the  *)
(* dominos of both chains and all its adjacent display values match.       *)
(***************************************************************************)
ChainIndices == 0..(Len(state.chains) - 1)

StartLabel(chain) == chain[1].displayValue1

EndLabel(chain) == chain[Len(chain)].displayValue2

IdsOf(chain) == {chain[k].id : k \in 1..Len(chain)}

\* the chain read from its other end
Reversed(chain) ==
  [k \in 1..Len(chain) |->
     [chain[Len(chain) + 1 - k] EXCEPT
        !.displayValue1 = chain[Len(chain) + 1 - k].displayValue2,
        !.displayValue2 = chain[Len(chain) + 1 - k].displayValue1]]

Joinable(chain1, chain2) ==
  \/ EndLabel(chain1) = StartLabel(chain2)
  \/ EndLabel(chain1) = EndLabel(chain2)
  \/ StartLabel(chain1) = EndLabel(chain2)
  \/ StartLabel(chain1) = StartLabel(chain2)

Merged(chain1, chain2) ==
  IF EndLabel(chain1) = StartLabel(chain2) THEN chain1 \o chain2
  ELSE IF EndLabel(chain1) = EndLabel(chain2) THEN chain1 \o Reversed(chain2)
  ELSE IF StartLabel(chain1) = EndLabel(chain2) THEN chain2 \o chain1
  ELSE Reversed(chain2) \o chain1

\* C21: the chain joinChains appends is the merge the four cases prescribe,
\* it has the dominos of both chains, and its neighbours match at every seam
JoinOrientation ==
  \A i \in ChainIndices : \A j \in ChainIndices :
    (i # j /\ Joinable(At(state.chains, i), At(state.chains, j))) =>
      LET chain1 == At(state.chains, i)
          chain2 == At(state.chains, j)
          next == joinChains(state, i, j)
          merged == next.chains[Len(next.chains)]
      IN  /\ merged = Merged(chain1, chain2)
          /\ Len(merged) = Len(chain1) + Len(chain2)
          /\ IdsOf(merged) = IdsOf(chain1) \cup IdsOf(chain2)
          /\ \A k \in 1..(Len(merged) - 1) :
                merged[k].displayValue2 = merged[k + 1].displayValue1

\* two chains have been joined start to end, chain2 put in front of chain1
JoinOrientationWitness ==
  /\ last.op = "joinChains"
  /\ Len(state.history) > 0
  /\ LET before == state.history[Len(state.history)]
         chain1 == At(before.chains, last.args[1])
         chain2 == At(before.chains, last.args[2])
     IN  /\ EndLabel(chain1) # StartLabel(chain2)
         /\ EndLabel(chain1) # EndLabel(chain2)
         /\ StartLabel(chain1) = EndLabel(chain2)
         /\ state.chains[Len(state.chains)] = chain2 \o chain1

(***************************************************************************)
(* C22  joinChains(state, i, j) succeeds exactly when i # j, both indices  *)
(* name chains, and one of the four start/end combinations matches.  On    *)
(* success there is one chain less, both source chains are gone (for i < j *)
(* and i > j), the other chains keep their order, the merged chain is the  *)
(* last one, and the number of dominos in chains is unchanged.             *)
(***************************************************************************)
JoinAllowed(i, j) ==
  /\ i # j
  /\ i \in ChainIndices
  /\ j \in ChainIndices
  /\ Joinable(At(state.chains, i), At(state.chains, j))

\* number of entries of all chains of the list
RECURSIVE ChainTotal(_)
ChainTotal(chains) ==
  IF Len(chains) = 0 THEN 0
  ELSE ChainTotal(SubSeq(chains, 1, Len(chains) - 1)) + Len(chains[Len(chains)])

\* C22: the join is made exactly when JoinAllowed; then the two chains are
\* replaced by one chain put behind the others
JoinSucceedsIff ==
  \A i \in Indices(state.chains) : \A j \in Indices(state.chains) :
    LET next == joinChains(state, i, j)
    IN  IF JoinAllowed(i, j)
        THEN /\ Len(next.chains) = Len(state.chains) - 1
             /\ SubSeq(next.chains, 1, Len(next.chains) - 1) =
                  KeptPairs(state.chains, (1..Len(state.chains)) \ {i + 1, j + 1})
             /\ Len(next.chains[Len(next.chains)]) =
                  Len(At(state.chains, i)) + Len(At(state.chains, j))
             /\ ChainTotal(next.chains) = ChainTotal(state.chains)
        ELSE next = state

\* chains i > j have been joined beside a third chain, which stays in front
\* of the merged chain
JoinSucceedsIffWitness ==
  /\ last.op = "joinChains"
  /\ last.args[1] > last.args[2]
  /\ Len(state.chains) >= 2
  /\ Len(state.history) > 0
  /\ Len(state.history[Len(state.history)].chains) = Len(state.chains) + 1

(***************************************************************************)
(* C23  reorderPairs, reorderDominos and reorderChains return their input  *)
(* when fromIndex = toIndex or when either index is below 0 or at or       *)
(* beyond the length of the list; no history entry is recorded.            *)
(***************************************************************************)
BadReorder(list, f, t) ==
  \/ f = t
  \/ f < 0 \/ f >= Len(list)
  \/ t < 0 \/ t >= Len(list)

\* C23: a reorder call with equal or out-of-range indices changes nothing
ReorderRejectsBadIndices ==
  /\ \A f \in Indices(state.pairs) : \A t \in Indices(state.pairs) :
       BadReorder(state.pairs, f, t) => reorderPairs(state, f, t) = state
  /\ \A f \in Indices(state.dominos) : \A t \in Indices(state.dominos) :
       BadReorder(state.dominos, f, t) => reorderDominos(state, f, t) = state
  /\ \A f \in Indices(state.chains) : \A t \in Indices(state.chains) :
       BadReorder(state.chains, f, t) => reorderChains(state, f, t) = state

\* a list has been reordered, and pairs, dominos and chains all have two or
\* more elements, so that each list has equal indices and indices off both ends
ReorderRejectsBadIndicesWitness ==
  /\ last.op \in {"reorderPairs", "reorderDominos", "reorderChains"}
  /\ Len(state.pairs) >= 2
  /\ Len(state.dominos) >= 2
  /\ Len(state.chains) >= 2
  /\ Len(state.history) > 0

(***************************************************************************)
(* C24  undoState returns its input when the history is empty; otherwise   *)
(* it restores the most recent snapshot and the history is the previous    *)
(* history without its last entry: undo itself records nothing.            *)
(***************************************************************************)
\* C24: undoState pops exactly the newest snapshot, or does nothing
UndoPopsNewestSnapshot ==
  LET undone == undoState(state)
      n == Len(state.history)
  IN  IF n = 0 THEN undone = state
      ELSE /\ undone.tableau = state.history[n].tableau
           /\ undone.pairs = state.history[n].pairs
           /\ undone.dominos = state.history[n].dominos
           /\ undone.chains = state.history[n].chains
           /\ undone.moveCount = state.history[n].moveCount
           /\ undone.history = SubSeq(state.history, 1, n - 1)

\* undoState has popped the only snapshot, so that the next undoState finds
\* the history empty
UndoPopsNewestSnapshotWitness ==
  /\ last.op = "undoState"
  /\ Len(state.history) = 0
  /\ state.moveCount = 0

(***************************************************************************)
(* C25  "Remove Last" undoes the last chain addition: after a successful   *)
(* addDominoToChain that attached domino d to chain k, at its end or at    *)
(* its start, removeLastFromChain on chain k removes d, clears d.inChain   *)
(* and leaves the chain as it was before d was added.                      *)
(***************************************************************************)
\* the chains (from 1) of s that addDominoToChain made one entry longer in next
Extended(s, next) ==
  IF Len(next.chains) # Len(s.chains) THEN {}
  ELSE {k \in 1..Len(s.chains) : Len(next.chains[k]) = Len(s.chains[k]) + 1}

\* removeLastFromChain on chain k of next gives back the chains and dominos of s
TakenBack(s, next, k) ==
  LET back == removeLastFromChain(next, k - 1)
  IN  /\ back.chains = s.chains
      /\ back.dominos = s.dominos

\* C25: whatever chain a domino is attached to, and at whichever side,
\* removeLastFromChain on that chain takes the attachment back
RemoveLastUndoesAddition ==
  \A d \in Unplaced : \A c \in {null} \cup {<<k>> : k \in ChainIndices} :
    LET next == addDominoToChain(state, d, c)
    IN  \A k \in Extended(state, next) : TakenBack(state, next, k)

\* the same for attachments at the end of the chain only
RemoveLastUndoesEndAddition ==
  \A d \in Unplaced : \A c \in {null} \cup {<<k>> : k \in ChainIndices} :
    LET next == addDominoToChain(state, d, c)
    IN  \A k \in Extended(state, next) :
          next.chains[k][Len(next.chains[k])].id = At(state.dominos, d).id
            => TakenBack(state, next, k)

(***************************************************************************)
(* C26  Chain removal returns dominos to the pool.  removeLastFromChain on *)
(* a non-empty chain k removes its last element, clears inChain on the     *)
(* pool domino with that id and deletes the chain if it became empty;      *)
(* clearChain(state, k) removes chain k and clearChain(state, null) all    *)
(* chains, clearing inChain on exactly the dominos of the removed chains.  *)
(* The number of dominos, the tableau, the pairs and every other chain     *)
(* stay as they are.                                                       *)
(***************************************************************************)
\* the pool with inChain = false on the dominos whose id is in ids
ReturnedToPool(dominos, ids) ==
  [n \in 1..Len(dominos) |->
     IF dominos[n].id \in ids THEN [dominos[n] EXCEPT !.inChain = FALSE]
     ELSE dominos[n]]

\* the chain list without the chain at position k (from 1)
WithoutChain(chains, k) ==
  SubSeq(chains, 1, k - 1) \o SubSeq(chains, k + 1, Len(chains))

AllChainIds == UNION {IdsOf(state.chains[k]) : k \in 1..Len(state.chains)}

\* C26: what removeLastFromChain and clearChain take from the chains goes
\* back to the pool, and nothing else changes
RemovalReturnsDominos ==
  /\ \A k \in 1..Len(state.chains) :
       LET chain == state.chains[k]
           next == removeLastFromChain(state, k - 1)
       IN  /\ next.chains =
                IF Len(chain) = 1 THEN WithoutChain(state.chains, k)
                ELSE [state.chains EXCEPT ![k] = SubSeq(chain, 1, Len(chain) - 1)]
           /\ next.dominos = ReturnedToPool(state.dominos, {chain[Len(chain)].id})
           /\ next.tableau = state.tableau
           /\ next.pairs = state.pairs
  /\ \A k \in 1..Len(state.chains) :
       LET next == clearChain(state, <<k - 1>>)
       IN  /\ next.chains = WithoutChain(state.chains, k)
           /\ next.dominos = ReturnedToPool(state.dominos, IdsOf(state.chains[k]))
           /\ next.tableau = state.tableau
           /\ next.pairs = state.pairs
  /\ LET next == clearChain(state, null)
     IN  /\ next.chains = <<>>
         /\ next.dominos = ReturnedToPool(state.dominos, AllChainIds)
         /\ next.tableau = state.tableau
         /\ next.pairs = state.pairs

\* a domino has been taken off a chain and is back in the pool, and two or
\* more chains are left, one of them with a single domino
RemovalReturnsDominosWitness ==
  /\ last.op = "removeLastFromChain"
  /\ Len(state.chains) >= 2
  /\ \E k \in 1..Len(state.chains) : Len(state.chains[k]) = 1
  /\ Unplaced # {}

(***************************************************************************)
(* C27  dealTableau(deck, n) puts the card at deck index k into column     *)
(* k mod n at row floor(k / n): every card lands in exactly one column     *)
(* once, deck order is kept inside each column; 52 cards over 8 columns    *)
(* give 7 cards in columns 0..3 and 6 in columns 4..7.                     *)
(***************************************************************************)
\* number of cards of the columns of a tableau
RECURSIVE CardsIn(_)
CardsIn(tableau) ==
  IF Len(tableau) = 0 THEN 0
  ELSE CardsIn(SubSeq(tableau, 1, Len(tableau) - 1)) + Len(tableau[Len(tableau)])

\* C27: the tableau dealt has card k of the deck at row k div n of column k mod n
DealIsRoundRobin ==
  last.op = "dealTableau" =>
    LET deck == last.args[5]
        n == last.args[3]
    IN  /\ Len(state.tableau) = n
        /\ CardsIn(state.tableau) = Len(deck)
        /\ \A k \in 0..(Len(deck) - 1) :
              /\ Len(state.tableau[(k % n) + 1]) >= (k \div n) + 1
              /\ state.tableau[(k % n) + 1][(k \div n) + 1] = deck[k + 1]
        /\ (Len(deck) = 52 /\ n = 8) =>
              \A c \in 0..7 : Len(state.tableau[c + 1]) = IF c <= 3 THEN 7 ELSE 6

\* 52 shuffled cards have been dealt over 8 columns
DealIsRoundRobinWitness ==
  /\ last.op = "dealTableau"
  /\ Len(last.args[5]) = 52
  /\ last.args[5] # last.args[1]
  /\ last.args[3] = 8
  /\ Len(state.tableau) = 8

DominoIdsReproducible ==
  \A i \in PairIndices : \A j \in PairIndices :
    \A id1 \in DominoIds : \A id2 \in DominoIds :
      createDominoFromPairs(state, i, j, id1) = createDominoFromPairs(state, i, j, id2)

\* the same, apart from the id of the domino made
ReproducibleApartFromIds ==
  \A i \in PairIndices : \A j \in PairIndices :
    \A id1 \in DominoIds : \A id2 \in DominoIds :
      LET run1 == createDominoFromPairs(state, i, j, id1)
          run2 == createDominoFromPairs(state, i, j, id2)
      IN  /\ run1.tableau = run2.tableau
          /\ run1.pairs = run2.pairs
          /\ run1.chains = run2.chains
          /\ run1.moveCount = run2.moveCount
          /\ run1.history = run2.history
          /\ Len(run1.dominos) = Len(run2.dominos)
          /\ \A n \in 1..Len(run1.dominos) :
                [run1.dominos[n] EXCEPT !.id = 0] = [run2.dominos[n] EXCEPT !.id = 0]

(***************************************************************************)
(* C30  Chain extension orientation.  A domino attached at a chain's end   *)
(* becomes the last element, with displayValue1 the previous end label and *)
(* displayValue2 its other value, and the start label stays; attached at   *)
(* the start it becomes the first element, with displayValue2 the previous *)
(* start label and displayValue1 its other value, and the end label stays. *)
(***************************************************************************)
\* the entry shows the two values of the domino, one on each side
ShowsBothValues(entry, domino) ==
  <<entry.displayValue1, entry.displayValue2>> \in
    {<<domino.value1, domino.value2>>, <<domino.value2, domino.value1>>}

\* C30: the attached domino faces the chain with its matching value
ExtensionOrientation ==
  \A d \in Unplaced : \A c \in {null} \cup {<<k>> : k \in ChainIndices} :
    LET next == addDominoToChain(state, d, c)
        domino == At(state.dominos, d)
    IN  \A k \in Extended(state, next) :
          LET old == state.chains[k]
              new == next.chains[k]
          IN  IF new[Len(new)].id = domino.id
              THEN /\ SubSeq(new, 1, Len(old)) = old
                   /\ new[Len(new)].displayValue1 = EndLabel(old)
                   /\ ShowsBothValues(new[Len(new)], domino)
                   /\ StartLabel(new) = StartLabel(old)
              ELSE /\ SubSeq(new, 2, Len(new)) = old
                   /\ new[1].id = domino.id
                   /\ new[1].displayValue2 = StartLabel(old)
                   /\ ShowsBothValues(new[1], domino)
                   /\ EndLabel(new) = EndLabel(old)

\* a domino has been attached at the start of a chain, turned round
ExtensionOrientationWitness ==
  /\ last.op = "addDominoToChain"
  /\ \E k \in 1..Len(state.chains) :
        LET chain == state.chains[k]
        IN  /\ Len(chain) >= 2
            /\ chain[1].originalIndex = last.args[1]
            /\ chain[1].id = At(state.dominos, last.args[1]).id
            /\ chain[1].value1 # chain[1].value2
            /\ chain[1].displayValue1 = chain[1].value2
            /\ chain[1].displayValue2 = chain[2].displayValue1

(***************************************************************************)
(* C31  With an existing target chain, addDominoToChain appends the domino *)
(* at the chain's end whenever one of its values equals the end label      *)
(* (also when it equals the start label too), prepends it when only the    *)
(* start label matches, and otherwise leaves the target chain as it is and *)
(* appends a new one-domino chain to state.chains.                         *)
(***************************************************************************)
\* C31: end before start before new chain, for every existing target chain
TargetChainEndThenStart ==
  \A d \in Unplaced : \A k \in ChainIndices :
    LET domino == At(state.dominos, d)
        chain == At(state.chains, k)
        next == addDominoToChain(state, d, <<k>>)
    IN  IF MatchesEnd(domino, chain) \/ MatchesStart(domino, chain)
        THEN /\ AttachedTo(state, d, k + 1, next)
             /\ At(next.dominos, d).inChain
        ELSE StartsNewChain(state, d, next)

\* a domino aimed at a chain that does not accept it has become a new chain
\* behind the others
TargetChainEndThenStartWitness ==
  /\ last.op = "addDominoToChain"
  /\ last.args[2] # null
  /\ Len(state.history) > 0
  /\ LET before == state.history[Len(state.history)]
     IN  /\ Has(before.chains, last.args[2][1])
         /\ Len(state.chains) = Len(before.chains) + 1
         /\ SubSeq(state.chains, 1, Len(before.chains)) = before.chains
         /\ state.chains[Len(state.chains)][1].originalIndex = last.args[1]

(***************************************************************************)
(* C32  reverseChain is an involution that swaps the ends: reversing twice *)
(* gives the chain back, the start label of the reversed chain is the end  *)
(* label of the chain and vice versa, and a chain whose neighbours match   *)
(* (c[i].displayValue2 = c[i+1].displayValue1) is reversed into one whose  *)
(* neighbours match.                                                       *)
(***************************************************************************)
NeighboursMatch(chain) ==
  \A n \in 1..(Len(chain) - 1) : chain[n].displayValue2 = chain[n + 1].displayValue1

ReversesWell(chain) ==
  LET reversed == reverseChain(chain)
  IN  /\ reverseChain(reversed) = chain
      /\ Len(reversed) = Len(chain)
      /\ Len(chain) > 0 =>
            /\ StartLabel(reversed) = EndLabel(chain)
            /\ EndLabel(reversed) = StartLabel(chain)
      /\ NeighboursMatch(chain) => NeighboursMatch(reversed)

\* C32: for every stored chain, and for all stored chains put in one row
\* (neighbours need not match there)
ReverseIsInvolution ==
  /\ \A k \in 1..Len(state.chains) : ReversesWell(state.chains[k])
  /\ ReversesWell(Flat(state.chains))

\* joinChains has put a reversed chain of two or more dominos behind another
\* chain, and the chains left in one row have neighbours that do not match
ReverseIsInvolutionWitness ==
  /\ last.op = "joinChains"
  /\ Len(state.history) > 0
  /\ LET before == state.history[Len(state.history)]
         chain1 == At(before.chains, last.args[1])
         chain2 == At(before.chains, last.args[2])
     IN  /\ Len(chain2) >= 2
         /\ EndLabel(chain1) # StartLabel(chain2)
         /\ EndLabel(chain1) = EndLabel(chain2)
         /\ state.chains[Len(state.chains)] = chain1 \o reverseChain(chain2)
  /\ ~NeighboursMatch(Flat(state.chains))

(***************************************************************************)
(* C33  reorderPairs, reorderDominos and reorderChains with valid distinct *)
(* indices are positional moves: the element that was at fromIndex is at   *)
(* toIndex, all other elements keep their relative order, and tableau,     *)
(* moveCount and the two other lists are unchanged (so are the inChain     *)
(* flags and the contents of the chains).                                  *)
(***************************************************************************)
\* new is old with the element at f moved to t (indices from 0)
MovedTo(old, new, f, t) ==
  /\ Len(new) = Len(old)
  /\ At(new, t) = At(old, f)
  /\ KeptPairs(new, (1..Len(new)) \ {t + 1}) = KeptPairs(old, (1..Len(old)) \ {f + 1})

\* C33: a reorder call moves one element within its list and changes no
\* other list, nor the tableau, nor moveCount
ReorderIsPositionalMove ==
  /\ \A f \in PairIndices : \A t \in PairIndices :
       f # t =>
         LET next == reorderPairs(state, f, t)
         IN  /\ MovedTo(state.pairs, next.pairs, f, t)
             /\ next.dominos = state.dominos
             /\ next.chains = state.chains
             /\ next.tableau = state.tableau
             /\ next.moveCount = state.moveCount
  /\ \A f \in 0..(Len(state.dominos) - 1) : \A t \in 0..(Len(state.dominos) - 1) :
       f # t =>
         LET next == reorderDominos(state, f, t)
         IN  /\ MovedTo(state.dominos, next.dominos, f, t)
             /\ next.pairs = state.pairs
             /\ next.chains = state.chains
             /\ next.tableau = state.tableau
             /\ next.moveCount = state.moveCount
  /\ \A f \in ChainIndices : \A t \in ChainIndices :
       f # t =>
         LET next == reorderChains(state, f, t)
         IN  /\ MovedTo(state.chains, next.chains, f, t)
             /\ next.pairs = state.pairs
             /\ next.dominos = state.dominos
             /\ next.tableau = state.tableau
             /\ next.moveCount = state.moveCount

\* an element has been moved over another one, between dominos of which some
\* are in a chain and some are not
ReorderIsPositionalMoveWitness ==
  /\ last.op \in {"reorderPairs", "reorderDominos", "reorderChains"}
  /\ last.args[1] - last.args[2] \in {0 - 2, 2}
  /\ Unplaced # {}
  /\ \E n \in 1..Len(state.dominos) : state.dominos[n].inChain

(***************************************************************************)
(* C34  Stored snapshots are never altered: every successful transition    *)
(* other than undoState leaves the old history in place (less its first    *)
(* entry only when it held 50 entries) and appends one entry equal to the  *)
(* tableau, pairs, dominos, chains and moveCount before the operation; no  *)
(* later operation changes a stored entry.                                 *)
(***************************************************************************)
\* the five fields of s as a history entry holds them
FieldsOf(s) ==
  [tableau |-> s.tableau, pairs |-> s.pairs, dominos |-> s.dominos,
   chains |-> s.chains, moveCount |-> s.moveCount]

\* the entries of the history that a further entry leaves in place
KeptHistory(history) ==
  IF Len(history) = MAX_HISTORY THEN Tail(history) ELSE history

\* C34: a transition other than undoState appends the fields of the state
\* before it to the kept entries, and an undoState only takes the newest
\* entry away
HistoryIsAppendOnly ==
  [][IF last'.op = "undoState"
     THEN state'.history = DropLast(state.history)
     ELSE state'.history = KeptHistory(state.history) \o <<FieldsOf(state)>>]_vars

\* a full history has lost its first entry to a transition that changed the
\* chains
HistoryIsAppendOnlyWitness ==
  /\ last.op # "undoState"
  /\ Len(state.history) = MAX_HISTORY
  /\ state.history[1].moveCount > 0
  /\ state.history[MAX_HISTORY].chains # <<>>
  /\ state.history[MAX_HISTORY].chains # state.chains

(***************************************************************************)
(* C35  moveCount grows by exactly 1 on every successful moveCard,         *)
(* createPairFromTableau, createDominoFromPairs, addDominoToChain and      *)
(* joinChains, and is left unchanged by removeLastFromChain, clearChain,   *)
(* reorderPairs, reorderDominos, reorderChains and by every rejected call. *)
(***************************************************************************)
\* next counts one move more than state when the call was valid, and the same
\* number when it was not
CountsWhenValid(invalid, next) ==
  next.moveCount = state.moveCount + (IF invalid THEN 0 ELSE 1)

\* the chainIndex arguments: none, every chain, one below and one above
ChainTargets == {null} \cup {<<k>> : k \in Indices(state.chains)}

\* C35: the five operations that make a move count it once when they succeed
\* and not at all when they reject; the five others never count
MoveCountCountsMoves ==
  /\ \A f \in AllCols : \A t \in AllCols :
       /\ CountsWhenValid(InvalidMove(state, f, t), moveCard(state, f, t))
       /\ CountsWhenValid(InvalidPair(state, f, t), createPairFromTableau(state, f, t))
  /\ \A i \in Indices(state.pairs) : \A j \in Indices(state.pairs) :
       /\ CountsWhenValid(InvalidDomino(state, i, j),
                          createDominoFromPairs(state, i, j, clock + 1))
       /\ reorderPairs(state, i, j).moveCount = state.moveCount
  /\ \A d \in Indices(state.dominos) :
       /\ \A c \in ChainTargets :
            CountsWhenValid(InvalidAdd(state, d, c), addDominoToChain(state, d, c))
       /\ \A e \in Indices(state.dominos) :
            reorderDominos(state, d, e).moveCount = state.moveCount
  /\ \A i \in Indices(state.chains) :
       /\ removeLastFromChain(state, i).moveCount = state.moveCount
       /\ \A j \in Indices(state.chains) :
            /\ CountsWhenValid(InvalidJoin(state, i, j), joinChains(state, i, j))
            /\ reorderChains(state, i, j).moveCount = state.moveCount
  /\ \A c \in ChainTargets : clearChain(state, c).moveCount = state.moveCount

\* dominos have been reordered after moves were counted, and the count is the
\* one of the state before
MoveCountCountsMovesWitness ==
  /\ last.op = "reorderDominos"
  /\ state.moveCount > 0
  /\ state.moveCount = state.history[Len(state.history)].moveCount
  /\ state.dominos # state.history[Len(state.history)].dominos

(***************************************************************************)
(* C36  Only top cards move: a successful moveCard takes the last card of  *)
(* the source column and makes it the last card of the destination; a      *)
(* successful createPairFromTableau takes the last card of each of the two *)
(* columns; the cards below keep their positions, every other column is    *)
(* unchanged, and moveCard leaves pairs, dominos and chains unchanged.     *)
(***************************************************************************)
\* the columns other than f and t are the same in both tableaus
OtherColumnsKept(old, new, f, t) ==
  /\ Len(new) = Len(old)
  /\ \A c \in 0..(Len(old) - 1) : c \notin {f, t} => At(new, c) = At(old, c)

\* column is shorter by its last card; the cards below are where they were
LostLastCard(old, new) ==
  /\ Len(old) > 0
  /\ Len(new) = Len(old) - 1
  /\ \A n \in 1..Len(new) : new[n] = old[n]

\* C36: a call that changes the state moves only the last cards of the two
\* columns it names
OnlyTopCardsMove ==
  \A f \in AllCols : \A t \in AllCols :
    /\ LET next == moveCard(state, f, t)
       IN  next # state =>
             LET source == At(state.tableau, f)
                 destination == At(state.tableau, t)
             IN  /\ LostLastCard(source, At(next.tableau, f))
                 /\ At(next.tableau, t) = destination \o <<source[Len(source)]>>
                 /\ OtherColumnsKept(state.tableau, next.tableau, f, t)
                 /\ next.pairs = state.pairs
                 /\ next.dominos = state.dominos
                 /\ next.chains = state.chains
    /\ LET next == createPairFromTableau(state, f, t)
       IN  next # state =>
             /\ LostLastCard(At(state.tableau, f), At(next.tableau, f))
             /\ LostLastCard(At(state.tableau, t), At(next.tableau, t))
             /\ OtherColumnsKept(state.tableau, next.tableau, f, t)

\* a card has been moved from a column that keeps cards onto a column that
\* had cards, with pairs, dominos and chains in the state
OnlyTopCardsMoveWitness ==
  /\ last.op = "moveCard"
  /\ Len(At(state.tableau, last.args[1])) > 0
  /\ Len(At(state.tableau, last.args[2])) > 1
  /\ state.pairs # <<>>
  /\ state.dominos # <<>>
  /\ state.chains # <<>>

(***************************************************************************)
(* C37  Undo is last-in-first-out over whole runs: from a state with an    *)
(* empty history, after n <= 50 successful transitions other than          *)
(* undoState, n undos return a state equal to the start in every field,    *)
(* the empty history included; after n > 50 exactly 50 undos are possible  *)
(* and they end in the state reached after the first n - 50 transitions,   *)
(* with an empty history.                                                  *)
(***************************************************************************)
\* the transitions of the run so far
RunLength == Len(last.args) - 1

\* the undos that can follow the run
Undoable == IF RunLength <= MAX_HISTORY THEN RunLength ELSE MAX_HISTORY

\* C37: after a run of n transitions from an empty history and u undos, the
\* state holds what the state after n - u transitions held; a further undo
\* changes the state exactly when u is below min(n, 50), and after min(n, 50)
\* undos the history is empty
UndoIsLastInFirstOut ==
  last.args # <<>> =>
    /\ free <= Undoable
    /\ RunEntry(state) = last.args[RunLength - free + 1]
    /\ free < Undoable => undoState(state) # state
    /\ free = Undoable =>
         /\ undoState(state) = state
         /\ state.history = <<>>

\* a run of more than 50 transitions has been undone 50 times
UndoIsLastInFirstOutWitness ==
  /\ RunLength > MAX_HISTORY
  /\ free = MAX_HISTORY
  /\ state.history = <<>>
  /\ state.moveCount > 0
  /\ state.pairs # <<>>

(***************************************************************************)
(* C38  Repeated undo terminates: from every reachable state, undoState    *)
(* applied again and again strictly shortens the history at each step and  *)
(* reaches the empty history, where undoState is a no-op, after at most 50 *)
(* steps.                                                                  *)
(***************************************************************************)
\* the number of undoState calls from s to the empty history, each of which
\* shortens the history; 51 when a call does not shorten it or when 50 calls
\* have not emptied it (steps is the number of calls made so far)
RECURSIVE UndoSteps(_, _)
UndoSteps(s, steps) ==
  IF Len(s.history) = 0 THEN steps
  ELSE IF steps >= 50 THEN 51
  ELSE LET previous == undoState(s)
       IN  IF Len(previous.history) < Len(s.history)
           THEN UndoSteps(previous, steps + 1)
           ELSE 51

\* the state repeated undoState ends in, within the 50 calls
RECURSIVE UndoneState(_, _)
UndoneState(s, steps) ==
  IF Len(s.history) = 0 \/ steps >= 50 THEN s
  ELSE UndoneState(undoState(s), steps + 1)

\* C38: from every reachable state at most 50 undoState calls, each shortening
\* the history, reach a state with an empty history that undoState returns
\* unchanged
RepeatedUndoTerminates ==
  /\ UndoSteps(state, 0) <= 50
  /\ LET ended == UndoneState(state, 0)
     IN  /\ ended.history = <<>>
         /\ undoState(ended) = ended

\* a state from which exactly 50 undos are needed, the oldest entry of its
\* history not being the dealt state
RepeatedUndoTerminatesWitness ==
  /\ UndoSteps(state, 0) = 50
  /\ UndoneState(state, 0).moveCount > 0
  /\ last.op # "undoState"

(***************************************************************************)
(* C39  No empty chain is ever stored: every element of state.chains holds *)
(* at least one domino.                                                    *)
(***************************************************************************)
\* C39: every chain of every reachable state has one domino or more
NoEmptyChain ==
  \A k \in 1..Len(state.chains) : Len(state.chains[k]) >= 1

\* a chain has lost all its dominos at once, or its only domino, and other
\* chains remain
NoEmptyChainWitness ==
  /\ last.op \in {"removeLastFromChain", "clearChain"}
  /\ state.chains # <<>>
  /\ Len(state.chains) = Len(state.history[Len(state.history)].chains) - 1

(***************************************************************************)
(* C40  Dominos are never dissolved: along every run with no undoState     *)
(* step the number of dominos never decreases and the four cards of a      *)
(* domino stay in it; removeLastFromChain and clearChain only clear        *)
(* inChain flags and never move cards back to the pairs or the tableau.    *)
(***************************************************************************)
\* every domino of old is a domino of new, with the same pairs and cards
DominosKept(old, new) ==
  \A n \in 1..Len(old) :
    \E m \in 1..Len(new) :
      /\ new[m].id = old[n].id
      /\ new[m].cards = old[n].cards
      /\ new[m].pair1 = old[n].pair1
      /\ new[m].pair2 = old[n].pair2

\* new is old with some inChain flags cleared and nothing else changed
OnlyFlagsCleared(old, new) ==
  /\ Len(new) = Len(old)
  /\ \A n \in 1..Len(old) :
       /\ [new[n] EXCEPT !.inChain = old[n].inChain] = old[n]
       /\ new[n].inChain => old[n].inChain

\* C40: a step other than undoState keeps every domino with its four cards
\* and does not make the dominos fewer; a removeLastFromChain or clearChain
\* step changes nothing of tableau, pairs and dominos but inChain flags, which
\* it clears
DominosNeverDissolved ==
  [][last'.op # "undoState" =>
       /\ Len(state'.dominos) >= Len(state.dominos)
       /\ DominosKept(state.dominos, state'.dominos)
       /\ last'.op \in {"removeLastFromChain", "clearChain"} =>
            /\ OnlyFlagsCleared(state.dominos, state'.dominos)
            /\ state'.pairs = state.pairs
            /\ state'.tableau = state.tableau]_vars

\* a chain of two dominos or more has been cleared, with pairs in the pool
\* and cards in the tableau
DominosNeverDissolvedWitness ==
  /\ last.op = "clearChain"
  /\ state.pairs # <<>>
  /\ countTableauCards(state.tableau) > 0
  /\ LET before == state.history[Len(state.history)]
     IN  Cardinality({n \in 1..Len(state.dominos) :
                        before.dominos[n].inChain /\ ~state.dominos[n].inChain}) >= 2
====
